---- MODULE Spec2Model ----
(***************************************************************************)
(* Verification model of the Penn State LionPath course scraper.           *)
(*                                                                         *)
(* Python strings are modelled as sequences of one-character strings, so   *)
(* that strip(), upper(), lower(), split(), substring containment and the  *)
(* regular expressions of the source are computed character by character.  *)
(***************************************************************************)
EXTENDS Integers, Sequences, FiniteSets, TLC

VARIABLES
    anchors,        \* parse_sections_optimized: the re.findall matches of the page
    next_anchor,    \* parse_sections_optimized: index of the next match to handle
    sections,       \* parse_sections_optimized: the list `sections` built so far
    parsed,         \* the value returned by the last parse_section_text_optimized
    section_arg,    \* the Section handed to the campus classifier
    up_optimized,   \* result of is_university_park_section (scraper_optimized.py)
    up_scraper,     \* result of is_university_park (scraper.py)
    raw_sections,   \* the section list handed to organize_sections_by_course
    courses_data,   \* self.courses_data of each OptimizedLionPathScraper
    organize_runs,  \* organize_sections_by_course calls made, per scraper
    comp_sections,  \* the section list handed to organize_courses
    comp_results,   \* the dicts returned by the organize_courses calls, in order
    stats,          \* the aggregates last read from an OptimizedCourseData
    jsonl_file,     \* the lines of the file written by save_optimized_results
    site_pages,     \* the search-result pages the site can answer a subject with
    campus_filter,  \* scrape_all_courses: the campus_filter argument
    max_workers,    \* self.max_workers of the scraper
    max_detail_workers, \* self.max_detail_workers of the scraper
    run_phase,      \* scrape_all_courses: position of the calling thread
    subject_tasks,  \* scrape_subjects_parallel: the futures of future_to_subject
    run_stats,      \* self.stats of the scraper
    session_pool,   \* self.session_pool: number of sessions in the queue
    sessions_created, \* sessions made by get_session on an empty pool
    client_sessions, \* sessions the caller of get_session holds itself
    detail_tasks,   \* extract_course_details_parallel: the futures of future_to_course
    returned,       \* the value returned by scrape_all_courses, once it returned
    comp_phase,     \* comprehensive scrape_all_courses: position of the calling thread
    comp_tasks,     \* comprehensive scrape_all_courses: the futures of future_to_subject
    comp_stats,     \* self.stats of the comprehensive scraper
    comp_session_pool, \* self.session_pool of the comprehensive scraper
    comp_returned,  \* the value returned by the comprehensive scrape_all_courses
    enh_phase,      \* enhanced scrape_all_courses: position of the calling thread
    enh_tasks,      \* enhanced scrape_all_courses: the futures of future_to_subject
    enh_sections,   \* enhanced scrape_all_courses: all_sections
    enh_courses_map, \* enhanced scrape_all_courses: courses_map
    enh_course_tasks, \* enhanced scrape_all_courses: the futures of course_futures
    enh_session_pool, \* self.session_pool of the enhanced scraper
    enh_courses_data, \* self.courses_data of the enhanced scraper
    enh_returned,   \* the value returned by the enhanced scrape_all_courses
    rate_limit_per_second, \* self.rate_limit_per_second of the scraper
    clock, \* time.time(), in ticks
    request_lock, \* self.request_lock: the thread inside the with block, 0 if none
    last_request_times, \* self.last_request_times
    limiter_threads, \* rate_limited_request: position, now and wake-up time of each thread
    issued, \* the times at which the wrapped method was called
    detail_parser, \* which detail operation has run ("none" before it)
    detail_page, \* the page handed to the detail parser
    detail_base, \* the record handed to the detail parser
    detail_result, \* the record the detail parser returned
    sess_scraper, \* which scraper's session handling runs: "optimized" or "enhanced"
    sess_pool, \* session_pool: the queue of the sessions, each with its identity
    sess_created, \* number of sessions made so far (the identities used)
    sess_threads, \* scraper_optimized.py: per worker thread, its step and the session it holds
    sess_tasks, \* scraper_enhanced.py: per course, the state of its future and the session handed to it
    sess_main \* scraper_enhanced.py: the step of the main thread and the course whose session it uses

parser_vars == <<anchors, next_anchor, sections, parsed>>

classifier_vars == <<section_arg, up_optimized, up_scraper>>

reconciler_vars == <<raw_sections, courses_data, organize_runs, comp_sections, comp_results>>

writer_vars == <<stats, jsonl_file>>

orchestrator_vars ==
    <<site_pages, campus_filter, max_workers, max_detail_workers, run_phase, subject_tasks, run_stats,
      session_pool, sessions_created, client_sessions, detail_tasks, returned>>

comprehensive_vars == <<comp_phase, comp_tasks, comp_stats, comp_session_pool, comp_returned>>

enhanced_vars ==
    <<enh_phase, enh_tasks, enh_sections, enh_courses_map, enh_course_tasks, enh_session_pool,
      enh_courses_data, enh_returned>>

limiter_vars == <<rate_limit_per_second, clock, request_lock, last_request_times, limiter_threads, issued>>

detail_vars == <<detail_parser, detail_page, detail_base, detail_result>>

session_vars == <<sess_scraper, sess_pool, sess_created, sess_threads, sess_tasks, sess_main>>

pipeline_vars == <<orchestrator_vars, comprehensive_vars, enhanced_vars, limiter_vars, detail_vars, session_vars>>

vars == <<parser_vars, classifier_vars, reconciler_vars, writer_vars, pipeline_vars>>

(***************************************************************************)
(* Characters and Python string primitives                                 *)
(***************************************************************************)
UpperSeq == <<"A", "B", "C", "D", "E", "F", "G", "H", "I", "J", "K", "L", "M",
              "N", "O", "P", "Q", "R", "S", "T", "U", "V", "W", "X", "Y", "Z">>

LowerSeq == <<"a", "b", "c", "d", "e", "f", "g", "h", "i", "j", "k", "l", "m",
              "n", "o", "p", "q", "r", "s", "t", "u", "v", "w", "x", "y", "z">>

UpperChars == {UpperSeq[i] : i \in DOMAIN UpperSeq}

LowerChars == {LowerSeq[i] : i \in DOMAIN LowerSeq}

DigitChars == {"0", "1", "2", "3", "4", "5", "6", "7", "8", "9"}

\* the characters matched by \s and removed by str.strip()
SpaceChars == {" ", "\t", "\n"}

\* str.upper() on one character
UpperChar(c) ==
    IF c \in LowerChars
    THEN UpperSeq[CHOOSE i \in DOMAIN LowerSeq : LowerSeq[i] = c]
    ELSE c

\* str.lower() on one character
LowerChar(c) ==
    IF c \in UpperChars
    THEN LowerSeq[CHOOSE i \in DOMAIN UpperSeq : UpperSeq[i] = c]
    ELSE c

\* str.upper()
Upper(s) == [i \in 1..Len(s) |-> UpperChar(s[i])]

\* str.lower()
Lower(s) == [i \in 1..Len(s) |-> LowerChar(s[i])]

\* Python `sub in s` (the empty string is contained in every string)
Contains(s, sub) ==
    \E i \in 1..(Len(s) + 1) :
        /\ i + Len(sub) - 1 <= Len(s)
        /\ SubSeq(s, i, i + Len(sub) - 1) = sub

\* str.find(sub) + 1: index of the first occurrence, 0 when there is none
FindFirst(s, sub) ==
    IF Contains(s, sub)
    THEN CHOOSE i \in 1..(Len(s) + 1) :
            /\ i + Len(sub) - 1 <= Len(s)
            /\ SubSeq(s, i, i + Len(sub) - 1) = sub
            /\ \A j \in 1..(i - 1) : SubSeq(s, j, j + Len(sub) - 1) # sub
    ELSE 0

\* str.endswith(c) for a one-character suffix
EndsWith(s, c) == Len(s) > 0 /\ s[Len(s)] = c

\* str.strip(): leading and trailing whitespace removed
Strip(s) ==
    IF \A i \in 1..Len(s) : s[i] \in SpaceChars
    THEN <<>>
    ELSE LET first == CHOOSE i \in 1..Len(s) :
                         s[i] \notin SpaceChars /\ \A j \in 1..(i - 1) : s[j] \in SpaceChars
             last  == CHOOSE i \in 1..Len(s) :
                         s[i] \notin SpaceChars /\ \A j \in (i + 1)..Len(s) : s[j] \in SpaceChars
         IN SubSeq(s, first, last)

\* end of the longest run of characters of class S that starts at index i
\* (i - 1 when s[i] is not in S): what a greedy S* consumes from i
RunEnd(s, i, S) ==
    CHOOSE j \in (i - 1)..Len(s) :
        /\ \A k \in i..j : s[k] \in S
        /\ (j = Len(s) \/ s[j + 1] \notin S)

(***************************************************************************)
(* Section Parser: parse_section_text_optimized                            *)
(***************************************************************************)
NoMatch == [ok |-> FALSE, subject |-> <<>>, catalog_number |-> <<>>]

\* The tail \s+(\d+[A-Z]*) of both course patterns, tried with the subject
\* group ending at index e: greedy whitespace, digits (at least one), capitals.
MatchCatalog(text, e) ==
    LET w == RunEnd(text, e + 1, SpaceChars)
        d == RunEnd(text, w + 1, DigitChars)
        c == RunEnd(text, d + 1, UpperChars)
    IN IF e >= Len(text) \/ w < e + 1 \/ d < w + 1
       THEN NoMatch
       ELSE [ok |-> TRUE,
             subject |-> SubSeq(text, 1, e),
             catalog_number |-> SubSeq(text, w + 1, c)]

\* mutant: the hyphen of the first course pattern is lost, r'^([A-Z]+[A-Z]+)...'
MatchHyphenatedCourse_NoHyphen(text) ==
    LET n1 == RunEnd(text, 1, UpperChars)
    IN IF n1 >= 2 THEN MatchCatalog(text, n1) ELSE NoMatch

\* re.match(r'^([A-Z]+-?[A-Z]+)\s+(\d+[A-Z]*)', text).  The first [A-Z]+ is
\* greedy (n1 capitals).  With a hyphen right after them the second [A-Z]+
\* takes the capitals after the hyphen; without one the engine backtracks the
\* first run by one capital, so that the subject is the n1 >= 2 capitals.
\* Any other backtracking leaves a capital or the hyphen where \s is needed.
MatchHyphenatedCourse(text) ==
    LET n1 == RunEnd(text, 1, UpperChars)
    IN IF n1 < 1
       THEN NoMatch
       ELSE IF n1 + 1 <= Len(text) /\ text[n1 + 1] = "-"
            THEN LET n2 == RunEnd(text, n1 + 2, UpperChars)
                 IN IF n2 >= n1 + 2 THEN MatchCatalog(text, n2) ELSE NoMatch
            ELSE IF n1 >= 2 THEN MatchCatalog(text, n1) ELSE NoMatch

\* mutant: r'^([A-Z]+)\s+(\d+[A-Z]*)', a subject of one capital is accepted
MatchPlainCourse_OneCapital(text) ==
    LET n1 == RunEnd(text, 1, UpperChars)
    IN IF n1 >= 1 THEN MatchCatalog(text, n1) ELSE NoMatch

\* re.match(r'^([A-Z]{2,})\s+(\d+[A-Z]*)', text)
MatchPlainCourse(text) ==
    LET n1 == RunEnd(text, 1, UpperChars)
    IN IF n1 >= 2 THEN MatchCatalog(text, n1) ELSE NoMatch

\* the loop over course_patterns: the first pattern that matches wins
MatchCourseCode(text) ==
    IF MatchHyphenatedCourse(text).ok
    THEN MatchHyphenatedCourse(text)
    ELSE MatchPlainCourse(text)

\* one alternative of r'(\d{3}[A-Z]*|[A-Z]\d{2}|\d{2,3})' tried at index p:
\* the index where the match ends, 0 when no alternative matches at p
SectionMatchEnd(s, p) ==
    LET digit(k) == k <= Len(s) /\ s[k] \in DigitChars
    IN IF digit(p) /\ digit(p + 1) /\ digit(p + 2)
       THEN RunEnd(s, p + 3, UpperChars)
       ELSE IF s[p] \in UpperChars /\ digit(p + 1) /\ digit(p + 2)
       THEN p + 2
       ELSE IF digit(p) /\ digit(p + 1)
       THEN (IF digit(p + 2) THEN p + 2 ELSE p + 1)
       ELSE 0

\* re.search(r'(\d{3}[A-Z]*|[A-Z]\d{2}|\d{2,3})', s): leftmost match, "" if none
SearchSection(s) ==
    IF \E p \in 1..Len(s) : SectionMatchEnd(s, p) > 0
    THEN LET p == CHOOSE q \in 1..Len(s) :
                     /\ SectionMatchEnd(s, q) > 0
                     /\ \A r \in 1..(q - 1) : SectionMatchEnd(s, r) = 0
         IN SubSeq(s, p, SectionMatchEnd(s, p))
    ELSE <<>>

Dash == <<" ", "-", " ">>

\* text.split(' - ')[1], for a text that contains ' - '
SecondPart(text) ==
    LET i    == FindFirst(text, Dash)
        rest == SubSeq(text, i + Len(Dash), Len(text))
        j    == FindFirst(rest, Dash)
    IN IF j = 0 THEN rest ELSE SubSeq(rest, 1, j - 1)

\* campus_names of parse_section_text_optimized, in list order
campus_names == <<
    <<"W", "o", "r", "l", "d", " ", "C", "a", "m", "p", "u", "s">>,
    <<"B", "e", "r", "k", "s">>,
    <<"A", "b", "i", "n", "g", "t", "o", "n">>,
    <<"A", "l", "t", "o", "o", "n", "a">>,
    <<"B", "r", "a", "n", "d", "y", "w", "i", "n", "e">>,
    <<"D", "u", "b", "o", "i", "s">>,
    <<"E", "r", "i", "e">>,
    <<"F", "a", "y", "e", "t", "t", "e">>,
    <<"G", "r", "e", "a", "t", "e", "r", " ", "A", "l", "l", "e", "g", "h", "e", "n", "y">>,
    <<"H", "a", "r", "r", "i", "s", "b", "u", "r", "g">>,
    <<"H", "a", "z", "l", "e", "t", "o", "n">>,
    <<"L", "e", "h", "i", "g", "h", " ", "V", "a", "l", "l", "e", "y">>,
    <<"M", "o", "n", "t", " ", "A", "l", "t", "o">>,
    <<"N", "e", "w", " ", "K", "e", "n", "s", "i", "n", "g", "t", "o", "n">>,
    <<"S", "c", "h", "u", "y", "l", "k", "i", "l", "l">>,
    <<"S", "h", "e", "n", "a", "n", "g", "o">>,
    <<"W", "i", "l", "k", "e", "s", "-", "B", "a", "r", "r", "e">>,
    <<"Y", "o", "r", "k">>,
    <<"U", "P">> >>

\* the keywords of the default-to-UP test
up_default_blockers == {<<"w", "o", "r", "l", "d">>, <<"b", "e", "r", "k", "s">>, <<"y">>}

\* the campus-resolution block: first campus name contained in the segment,
\* else 'UP' unless the lower-cased segment contains 'world', 'berks' or 'y'
ResolveCampus(section_campus) ==
    IF \E k \in DOMAIN campus_names : Contains(section_campus, campus_names[k])
    THEN campus_names[CHOOSE k \in DOMAIN campus_names :
                        /\ Contains(section_campus, campus_names[k])
                        /\ \A m \in 1..(k - 1) : ~Contains(section_campus, campus_names[m])]
    ELSE IF ~\E c \in up_default_blockers : Contains(Lower(section_campus), c)
         THEN <<"U", "P">>
         ELSE <<>>

\* mutant: the reference is written without its comma
DetailReference_NoComma(strm, class_nbr) ==
    <<"s", "h", "o", "w", "C", "l", "a", "s", "s", "D", "e", "t", "a", "i", "l", "s", "(">>
        \o strm \o class_nbr \o <<")">>

\* f"showClassDetails({strm},{class_nbr})"
DetailReference(strm, class_nbr) ==
    <<"s", "h", "o", "w", "C", "l", "a", "s", "s", "D", "e", "t", "a", "i", "l", "s", "(">>
        \o strm \o <<",">> \o class_nbr \o <<")">>

\* the value None
None == [is_none |-> TRUE]

\* SectionInfo(...) with the dataclass defaults; course_code is the attribute
\* the parser attaches for grouping (has_course_code: the attribute exists)
SectionInfo(section, class_number, campus, course_url) ==
    [is_none |-> FALSE,
     section |-> section,
     class_number |-> class_number,
     campus |-> campus,
     class_capacity |-> 0,
     enrollment_total |-> 0,
     available_seats |-> 0,
     course_url |-> course_url,
     has_course_code |-> FALSE,
     course_code |-> <<>>]

parse_section_text_optimized(raw_text, strm, class_nbr) ==
    LET text   == Strip(raw_text)
        course == MatchCourseCode(text)
        course_code == course.subject \o <<" ">> \o course.catalog_number
        has_parts == Contains(text, Dash)
        section == IF has_parts THEN SearchSection(SecondPart(text)) ELSE <<>>
        campus  == IF has_parts THEN ResolveCampus(SecondPart(text)) ELSE <<>>
    IN IF ~course.ok
       THEN None
       ELSE [SectionInfo(section, class_nbr, campus, DetailReference(strm, class_nbr))
                EXCEPT !.has_course_code = TRUE, !.course_code = course_code]

(***************************************************************************)
(* Campus Classifier                                                       *)
(***************************************************************************)
\* non_up_indicators, the same list in scraper_optimized.py and scraper.py
non_up_indicators == {
    <<"W", "O", "R", "L", "D", " ", "C", "A", "M", "P", "U", "S">>,
    <<"B", "E", "R", "K", "S">>,
    <<"A", "B", "I", "N", "G", "T", "O", "N">>,
    <<"A", "L", "T", "O", "O", "N", "A">>,
    <<"B", "R", "A", "N", "D", "Y", "W", "I", "N", "E">>,
    <<"D", "U", "B", "O", "I", "S">>,
    <<"E", "R", "I", "E">>,
    <<"F", "A", "Y", "E", "T", "T", "E">>,
    <<"G", "R", "E", "A", "T", "E", "R", " ", "A", "L", "L", "E", "G", "H", "E", "N", "Y">>,
    <<"H", "A", "R", "R", "I", "S", "B", "U", "R", "G">>,
    <<"H", "A", "Z", "L", "E", "T", "O", "N">>,
    <<"L", "E", "H", "I", "G", "H", " ", "V", "A", "L", "L", "E", "Y">>,
    <<"M", "O", "N", "T", " ", "A", "L", "T", "O">>,
    <<"N", "E", "W", " ", "K", "E", "N", "S", "I", "N", "G", "T", "O", "N">>,
    <<"S", "C", "H", "U", "Y", "L", "K", "I", "L", "L">>,
    <<"S", "H", "E", "N", "A", "N", "G", "O">>,
    <<"W", "I", "L", "K", "E", "S", "-", "B", "A", "R", "R", "E">>,
    <<"Y", "O", "R", "K">> }

\* up_indicators of scraper.py: 'UP', 'UNIVERSITY PARK' and the empty string
up_indicators == {
    <<"U", "P">>,
    <<"U", "N", "I", "V", "E", "R", "S", "I", "T", "Y", " ", "P", "A", "R", "K">>,
    <<>> }

\* mutant: the campus text is compared without upper-casing it
is_university_park_section_RawCampus(section) ==
    LET campus      == section.campus
        section_num == Upper(section.section)
    IN IF \E indicator \in non_up_indicators : Contains(campus, indicator)
       THEN FALSE
       ELSE IF EndsWith(section_num, "Y") \/ EndsWith(section_num, "W")
       THEN FALSE
       ELSE TRUE

\* mutant: the 'W' suffix test is dropped
is_university_park_section_OnlyY(section) ==
    LET campus      == Upper(section.campus)
        section_num == Upper(section.section)
    IN IF \E indicator \in non_up_indicators : Contains(campus, indicator)
       THEN FALSE
       ELSE IF EndsWith(section_num, "Y")
       THEN FALSE
       ELSE TRUE

\* OptimizedLionPathScraper.is_university_park_section
is_university_park_section(section) ==
    LET campus      == Upper(section.campus)
        section_num == Upper(section.section)
    IN IF \E indicator \in non_up_indicators : Contains(campus, indicator)
       THEN FALSE
       ELSE IF EndsWith(section_num, "Y") \/ EndsWith(section_num, "W")
       THEN FALSE
       ELSE TRUE

\* mutant: the home-campus step tests membership instead of containment
is_university_park_ExactHome(course) ==
    LET campus  == Upper(course.campus)
        section == Upper(course.section)
    IN IF \E indicator \in non_up_indicators : Contains(campus, indicator)
       THEN FALSE
       ELSE IF campus \in up_indicators
       THEN TRUE
       ELSE IF EndsWith(section, "Y") \/ EndsWith(section, "W")
       THEN FALSE
       ELSE TRUE

\* HighPerformanceLionPathScraper.is_university_park
is_university_park(course) ==
    LET campus  == Upper(course.campus)
        section == Upper(course.section)
    IN IF \E indicator \in non_up_indicators : Contains(campus, indicator)
       THEN FALSE
       ELSE IF \E indicator \in up_indicators : Contains(campus, indicator)
       THEN TRUE
       ELSE IF EndsWith(section, "Y") \/ EndsWith(section, "W")
       THEN FALSE
       ELSE TRUE

(***************************************************************************)
(* Course Reconciler                                                       *)
(***************************************************************************)
\* A Python dict: the sequence of its [key, value] entries in insertion order
DictKeys(d) == {d[i].key : i \in DOMAIN d}

DictIndex(d, k) == CHOOSE i \in DOMAIN d : d[i].key = k

\* d[k]
DictGet(d, k) == d[DictIndex(d, k)].value

\* d[k] = v: the value of an existing key is replaced in place, a new key is
\* added at the end
DictSet(d, k, v) ==
    IF k \in DictKeys(d)
    THEN [d EXCEPT ![DictIndex(d, k)] = [key |-> k, value |-> v]]
    ELSE Append(d, [key |-> k, value |-> v])

RECURSIVE SumFrom(_, _)
SumFrom(values, start) ==
    IF values = <<>> THEN start ELSE SumFrom(Tail(values), start + Head(values))

\* the builtin sum(): a left fold from 0
sum(values) == SumFrom(values, 0)

semester_Fall_2025 == <<"F", "a", "l", "l", " ", "2", "0", "2", "5">>

\* CourseInfo(course_code=..., semester=..., last_updated=...) with the
\* dataclass defaults; ComprehensiveCourseInfo has the same fields
CourseInfo(course_code, semester, last_updated) ==
    [course_code |-> course_code,
     subject |-> <<>>,
     catalog_number |-> <<>>,
     units |-> <<>>,
     career |-> <<>>,
     grading |-> <<>>,
     component |-> <<>>,
     course_description |-> <<>>,
     enrollment_requirements |-> <<>>,
     class_attributes |-> <<>>,
     semester |-> semester,
     last_updated |-> last_updated]

OptimizedCourseData(course_info, course_sections) ==
    [course_info |-> course_info, sections |-> course_sections]

\* getattr(section, 'course_code', None); None and '' are both falsy and are
\* both rendered as the empty sequence
GetCourseCode(section) ==
    IF section.has_course_code THEN section.course_code ELSE <<>>

\* delattr(section, 'course_code')
DelCourseCode(section) ==
    [section EXCEPT !.has_course_code = FALSE, !.course_code = <<>>]

\* mutant: the section is put at the front of its group
AppendToGroup_Front(course_sections, course_code, section) ==
    DictSet(course_sections, course_code,
            IF course_code \in DictKeys(course_sections)
            THEN <<section>> \o DictGet(course_sections, course_code)
            ELSE <<section>>)

\* course_sections[course_code].append(section) on a defaultdict(list)
AppendToGroup(course_sections, course_code, section) ==
    DictSet(course_sections, course_code,
            IF course_code \in DictKeys(course_sections)
            THEN Append(DictGet(course_sections, course_code), section)
            ELSE <<section>>)

\* the grouping loop of organize_sections_by_course
RECURSIVE GroupSections(_, _)
GroupSections(section_list, course_sections) ==
    IF section_list = <<>>
    THEN course_sections
    ELSE LET section == Head(section_list)
             course_code == GetCourseCode(section)
         IN IF course_code = <<>>
            THEN GroupSections(Tail(section_list), course_sections)
            ELSE GroupSections(Tail(section_list),
                     AppendToGroup(course_sections, course_code, DelCourseCode(section)))

\* the input list after the grouping loop: the sections that were grouped
\* have lost their course_code attribute
SectionsAfterGrouping(section_list) ==
    [i \in DOMAIN section_list |->
        IF GetCourseCode(section_list[i]) = <<>>
        THEN section_list[i]
        ELSE DelCourseCode(section_list[i])]

\* the CourseInfo built for one group: subject and catalog number come from
\* re.match(r'^([A-Z]+-?[A-Z]+)\s+(\d+[A-Z]*)', course_code); last_updated is
\* datetime.now(), rendered as the logical time `now` of the call
GroupCourseInfo(course_code, now) ==
    LET course_info == CourseInfo(course_code, semester_Fall_2025, now)
        course_match == MatchHyphenatedCourse(course_code)
    IN IF course_match.ok
       THEN [course_info EXCEPT !.subject = course_match.subject,
                                !.catalog_number = course_match.catalog_number]
       ELSE course_info

\* the creation loop of organize_sections_by_course over the groups
RECURSIVE CreateCourses(_, _, _)
CreateCourses(course_sections, data, now) ==
    IF course_sections = <<>>
    THEN data
    ELSE LET course_code == Head(course_sections).key
             course_sections_list == Head(course_sections).value
         IN IF course_sections_list = <<>>
            THEN CreateCourses(Tail(course_sections), data, now)
            ELSE CreateCourses(Tail(course_sections),
                     DictSet(data, course_code,
                             OptimizedCourseData(GroupCourseInfo(course_code, now),
                                                 course_sections_list)),
                     now)

\* OptimizedLionPathScraper.organize_sections_by_course: self.courses_data
\* after the call made at time `now` on a scraper holding `data`
organize_sections_by_course(section_list, data, now) ==
    CreateCourses(GroupSections(section_list, <<>>), data, now)

\* OptimizedCourseData.get_total_capacity
get_total_capacity(course_data) ==
    sum([i \in DOMAIN course_data.sections |-> course_data.sections[i].class_capacity])

\* OptimizedCourseData.get_total_enrollment
get_total_enrollment(course_data) ==
    sum([i \in DOMAIN course_data.sections |-> course_data.sections[i].enrollment_total])

\* mutant: the available seats are derived as capacity minus enrollment
get_available_seats_Derived(course_data) ==
    get_total_capacity(course_data) - get_total_enrollment(course_data)

\* OptimizedCourseData.get_available_seats
get_available_seats(course_data) ==
    sum([i \in DOMAIN course_data.sections |-> course_data.sections[i].available_seats])

\* OptimizedCourseData.get_section_count
get_section_count(course_data) == Len(course_data.sections)

\* OptimizedCourseData.get_campuses
get_campuses(course_data) ==
    {course_data.sections[i].campus :
        i \in {j \in DOMAIN course_data.sections : course_data.sections[j].campus # <<>>}}

\* ComprehensiveSectionInfo(...) with the fields the reconciler reads
ComprehensiveSectionInfo(course_code, section, class_number, section_type, class_notes) ==
    [course_code |-> course_code,
     section |-> section,
     class_number |-> class_number,
     section_type |-> section_type,
     class_notes |-> class_notes]

ComprehensiveCourseData(course_info, course_sections) ==
    [course_info |-> course_info, sections |-> course_sections]

\* the marker names of the cleaning pattern, in the order of its alternatives
marker_names == <<
    <<"C", "O", "U", "R", "S", "E", "_", "D", "E", "S", "C">>,
    <<"E", "N", "R", "O", "L", "L", "M", "E", "N", "T", "_", "R", "E", "Q">>,
    <<"A", "T", "T", "R", "I", "B", "U", "T", "E", "S">>,
    <<"U", "N", "I", "T", "S">>,
    <<"G", "R", "A", "D", "I", "N", "G">>,
    <<"C", "A", "R", "E", "E", "R">> >>

\* the characters of s matched by [^|]
NotBar(s) == {s[k] : k \in DOMAIN s} \ {"|"}

\* r'<name>: [^|]' matches at index p of s
MarkerAt(s, p, name) ==
    LET tag == name \o <<":", " ">>
    IN /\ p + Len(tag) <= Len(s)
       /\ SubSeq(s, p, p + Len(tag) - 1) = tag
       /\ s[p + Len(tag)] # "|"

\* re.search(r'<name>: ([^|]+)', notes): the leftmost match and its group
SearchMarker(notes, name) ==
    IF \E p \in 1..Len(notes) : MarkerAt(notes, p, name)
    THEN LET p == CHOOSE q \in 1..Len(notes) :
                     /\ MarkerAt(notes, q, name)
                     /\ \A r \in 1..(q - 1) : ~MarkerAt(notes, r, name)
             g == p + Len(name) + 2
         IN [ok |-> TRUE, group |-> SubSeq(notes, g, RunEnd(notes, g, NotBar(notes)))]
    ELSE [ok |-> FALSE, group |-> <<>>]

\* the cleaning pattern r'(COURSE_DESC|...|CAREER): [^|]+\|?\s*' tried at index
\* p: the index of the last character it matches, 0 when it does not match
MarkerMatchEnd(s, p) ==
    IF \E n \in DOMAIN marker_names : MarkerAt(s, p, marker_names[n])
    THEN LET n == CHOOSE m \in DOMAIN marker_names : MarkerAt(s, p, marker_names[m])
             v == RunEnd(s, p + Len(marker_names[n]) + 2, NotBar(s))
             b == IF v < Len(s) /\ s[v + 1] = "|" THEN v + 1 ELSE v
         IN RunEnd(s, b + 1, SpaceChars)
    ELSE 0

\* re.sub(pattern, '', s) from index p on: matches are dropped left to right
RECURSIVE SubMarkers(_, _)
SubMarkers(s, p) ==
    IF p > Len(s)
    THEN <<>>
    ELSE IF MarkerMatchEnd(s, p) > 0
         THEN SubMarkers(s, MarkerMatchEnd(s, p) + 1)
         ELSE <<s[p]>> \o SubMarkers(s, p + 1)

\* re.sub(...).strip(): the class notes without the course-level markers
CleanNotes(class_notes) == Strip(SubMarkers(class_notes, 1))

\* re.match(r'^([A-Z]+-?[A-Z]*)\s+(\d+[A-Z]*)$', course_code); $ also matches
\* before a final newline
MatchComprehensiveCourse(course_code) ==
    LET n1 == RunEnd(course_code, 1, UpperChars)
        e  == IF n1 >= 1 /\ n1 < Len(course_code) /\ course_code[n1 + 1] = "-"
              THEN RunEnd(course_code, n1 + 2, UpperChars)
              ELSE n1
        w  == RunEnd(course_code, e + 1, SpaceChars)
        d  == RunEnd(course_code, w + 1, DigitChars)
        c  == RunEnd(course_code, d + 1, UpperChars)
    IN IF /\ n1 >= 1
          /\ w >= e + 1
          /\ d >= w + 1
          /\ (c = Len(course_code) \/ (c = Len(course_code) - 1 /\ course_code[c + 1] = "\n"))
       THEN [ok |-> TRUE,
             subject |-> SubSeq(course_code, 1, e),
             catalog_number |-> SubSeq(course_code, w + 1, c)]
       ELSE NoMatch

\* the group of a marker, stripped; "" when the notes do not hold the marker
MarkerValue(class_notes, n) == Strip(SearchMarker(class_notes, marker_names[n]).group)

\* the ComprehensiveCourseInfo built from the first section of a course; with
\* empty class_notes no marker is found, and an empty section_type leaves the
\* component at its default ""
FirstSectionCourseInfo(section, now) ==
    LET notes == section.class_notes
        course_match == MatchComprehensiveCourse(section.course_code)
        attr_match == SearchMarker(notes, marker_names[3])
    IN [CourseInfo(section.course_code, semester_Fall_2025, now) EXCEPT
           !.course_description = MarkerValue(notes, 1),
           !.enrollment_requirements = MarkerValue(notes, 2),
           !.class_attributes = IF attr_match.ok THEN <<Strip(attr_match.group)>> ELSE <<>>,
           !.units = MarkerValue(notes, 4),
           !.grading = MarkerValue(notes, 5),
           !.career = MarkerValue(notes, 6),
           !.subject = IF course_match.ok THEN course_match.subject ELSE <<>>,
           !.catalog_number = IF course_match.ok THEN course_match.catalog_number ELSE <<>>,
           !.component = section.section_type]

\* the loop of organize_courses from section i on: the dict built and the
\* input list, whose sections get their class_notes cleaned
RECURSIVE OrganizeFrom(_, _, _, _)
OrganizeFrom(section_list, i, courses, now) ==
    IF i > Len(section_list)
    THEN [courses |-> courses, sections |-> section_list]
    ELSE LET section == section_list[i]
             course_code == section.course_code
             created == IF course_code \in DictKeys(courses)
                        THEN courses
                        ELSE DictSet(courses, course_code,
                                 ComprehensiveCourseData(FirstSectionCourseInfo(section, now), <<>>))
             cleaned == IF section.class_notes # <<>>
                        THEN [section EXCEPT !.class_notes = CleanNotes(section.class_notes)]
                        ELSE section
             course_data == DictGet(created, course_code)
         IN OrganizeFrom([section_list EXCEPT ![i] = cleaned], i + 1,
                DictSet(created, course_code,
                    [course_data EXCEPT !.sections = Append(course_data.sections, cleaned)]),
                now)

\* ComprehensiveLionPathScraper.organize_courses: the returned dict and the
\* state of the input list after the call
organize_courses(section_list, now) == OrganizeFrom(section_list, 1, <<>>, now)

\* asdict(section) of a SectionInfo: the dataclass fields, not the attribute
\* attached for grouping
asdict_section(section) ==
    [section |-> section.section,
     class_number |-> section.class_number,
     campus |-> section.campus,
     class_capacity |-> section.class_capacity,
     enrollment_total |-> section.enrollment_total,
     available_seats |-> section.available_seats,
     course_url |-> section.course_url]

\* list(a_set): the elements in an order the hash seed decides
ListsOf(S) ==
    {q \in [1..Cardinality(S) -> S] : \A i, j \in DOMAIN q : q[i] = q[j] => i = j}

\* mutant: total_capacity and total_enrollment are swapped in the stats
JsonlRecord_SwappedTotals(course_data, campuses) ==
    [course |-> course_data.course_info,
     sections |-> [i \in DOMAIN course_data.sections |-> asdict_section(course_data.sections[i])],
     stats |-> [total_capacity |-> get_total_enrollment(course_data),
                total_enrollment |-> get_total_capacity(course_data),
                available_seats |-> get_available_seats(course_data),
                section_count |-> get_section_count(course_data),
                campuses |-> campuses]]

\* the record save_optimized_results writes for one course (jsonl format);
\* campuses is list(course_data.get_campuses())
JsonlRecord(course_data, campuses) ==
    [course |-> course_data.course_info,
     sections |-> [i \in DOMAIN course_data.sections |-> asdict_section(course_data.sections[i])],
     stats |-> [total_capacity |-> get_total_capacity(course_data),
                total_enrollment |-> get_total_enrollment(course_data),
                available_seats |-> get_available_seats(course_data),
                section_count |-> get_section_count(course_data),
                campuses |-> campuses]]

(***************************************************************************)
(* Inputs                                                                  *)
(***************************************************************************)
code_MATH_140 == <<"M", "A", "T", "H", " ", "1", "4", "0">>

code_CMPSC_131 == <<"C", "M", "P", "S", "C", " ", "1", "3", "1">>

label_001 == <<"0", "0", "1">>

label_001W == <<"0", "0", "1", "W">>

label_001Y == <<"0", "0", "1", "Y">>

label_002 == <<"0", "0", "2">>

University_Park == <<"U", "n", "i", "v", "e", "r", "s", "i", "t", "y", " ", "P", "a", "r", "k">>

World_Campus == <<"W", "o", "r", "l", "d", " ", "C", "a", "m", "p", "u", "s">>

Berks == <<"B", "e", "r", "k", "s">>

York == <<"Y", "o", "r", "k">>

UP == <<"U", "P">>

text_NoPattern == <<"N", "o", "P", "a", "t", "t", "e", "r", "n">>

text_123_456 == <<"1", "2", "3", " ", "4", "5", "6">>

text_dashes == <<"-", " ", "-", " ", "-">>

text_Invalid_Format == <<"I", "n", "v", "a", "l", "i", "d", " ", "F", "o", "r", "m", "a", "t">>

strm_2258 == <<"2", "2", "5", "8">>

class_12345 == <<"1", "2", "3", "4", "5">>

class_56789 == <<"5", "6", "7", "8", "9">>

\* an anchor text "<SUBJECT> <CATALOG> - <SECTION> - <CAMPUS>"
FullAnchor(code, label, campus) == code \o Dash \o label \o Dash \o campus

FormCodes == {code_MATH_140, code_CMPSC_131}

FormLabels == {label_001, label_001W}

FormCampuses == {World_Campus, Berks, University_Park}

FormTexts == {FullAnchor(c, l, k) : c \in FormCodes, l \in FormLabels, k \in FormCampuses}

\* the texts of TestErrorHandling.test_invalid_section_parsing and of
\* test_parse_section_text_optimized that name no course
InvalidTexts == {<<>>, text_NoPattern, text_123_456, text_dashes, text_Invalid_Format}

OtherTexts == {
    FullAnchor(code_MATH_140, label_001Y, York),
    <<" ", "M", "A", "T", "H", " ", "1", "4", "0", " ", "-", " ", "0", "0", "1">>,
    <<"M", "A", "T", "H", " ", "1", "4", "0", " ", "-", " ", "0", "0", "1", " ", "B", "e", "r", "k", "s">>,
    <<"M", "A", "T", "H", " ", "1", "4", "0", " ", "-", " ", "0", "0", "1", "Y">>,
    <<"M", "A", " ", " ", "1", "4", "0", "H">>,
    <<"M", "A", "T", "H", " ", "1", "4", "0", " ", "-", " ", "L", "0", "1", " ", "Y", "o", "r", "k">>,
    <<"M", " ", "1", "4", "0">>,
    <<"m", "a", "t", "h", " ", "1", "4", "0", " ", "-", " ", "0", "0", "1">>,
    <<"M", "A", "T", "H", " ", "1", "4", "0">>,
    <<"A", "-", "B", "-", "C", " ", "1", "0">>,
    <<"\t", "E", "E", " ", "2", "1", "0", " ", "-", " ", "0", "1", "\n">>,
    <<"A", "-", "I", " ", "2", "8", "5", " ", "-", " ", "5", "5", "5", "V">>,
    <<"M", "A", "T", "H", " ", "1", "4", "0", " ", "-", " ", "0", "0", "1", " ", "w", "o", "r", "l", "d">> }

AnchorTexts == FormTexts \cup InvalidTexts \cup OtherTexts

\* the texts that also occur under a second class number
RepeatedTexts == {
    FullAnchor(code_CMPSC_131, label_001, University_Park),
    FullAnchor(code_MATH_140, label_001W, World_Campus),
    code_MATH_140,
    text_Invalid_Format }

\* the matches of the showClassDetails pattern: (strm, class_nbr, text)
AnchorMatches ==
    [strm : {strm_2258}, class_nbr : {class_12345}, text : AnchorTexts]
        \cup [strm : {strm_2258}, class_nbr : {class_56789}, text : RepeatedTexts]

\* longest page (number of showClassDetails anchors) explored
MaxAnchors == 2

Pages == UNION {[1..n -> AnchorMatches] : n \in 0..MaxAnchors}

\* the campus texts and section labels the classifier is called with
ClassifierCampuses == {
    <<>>, UP, University_Park, World_Campus, Berks, York,
    <<"O", "n", "l", "i", "n", "e">>,
    <<"y", "o", "r", "k", " ", "c", "a", "m", "p", "u", "s">>,
    <<"P", "e", "n", "n", " ", "S", "t", "a", "t", "e", " ", "W", "o", "r", "l", "d", " ", "C", "a", "m", "p", "u", "s">>,
    <<"w", "o", "r", "l", "d", " ", "c", "a", "m", "p", "u", "s">>,
    <<"W", "o", "r", "l", " ", "C", "a", "m", "p", "u", "s">>,
    <<"H", "e", "r", "s", "h", "e", "y">> }

ClassifierLabels == {
    <<>>, label_001, label_001W, label_001Y, label_002,
    <<"5", "5", "5", "V">>, <<"L", "0", "1">>, <<"W", "0", "1">>, <<"0", "1">> }

ClassifierInputs ==
    {SectionInfo(l, class_12345, c, DetailReference(strm_2258, class_12345)) :
        l \in ClassifierLabels, c \in ClassifierCampuses}

label_003 == <<"0", "0", "3">>

class_12346 == <<"1", "2", "3", "4", "6">>

code_A_I_285 == <<"A", "-", "I", " ", "2", "8", "5">>

\* the sections of TestOptimizedCourseData, with the course code attached
section_MATH_001 ==
    [SectionInfo(label_001, <<>>, UP, <<>>) EXCEPT
        !.class_capacity = 50, !.enrollment_total = 45, !.available_seats = 5,
        !.has_course_code = TRUE, !.course_code = code_MATH_140]

section_MATH_002 ==
    [SectionInfo(label_002, <<>>, UP, <<>>) EXCEPT
        !.class_capacity = 50, !.enrollment_total = 48, !.available_seats = 2,
        !.has_course_code = TRUE, !.course_code = code_MATH_140]

section_MATH_003 ==
    [SectionInfo(label_003, <<>>, World_Campus, <<>>) EXCEPT
        !.class_capacity = 100, !.enrollment_total = 75, !.available_seats = 25,
        !.has_course_code = TRUE, !.course_code = code_MATH_140]

\* the section of TestSaveOptimizedResults, with a course code attached
section_CMPSC_001 ==
    [SectionInfo(label_001, class_12345, <<>>, <<>>) EXCEPT
        !.class_capacity = 30, !.enrollment_total = 25,
        !.has_course_code = TRUE, !.course_code = code_CMPSC_131]

\* SectionInfo(section="001") of test_empty_data_handling: no course code
section_NoCode == SectionInfo(label_001, <<>>, <<>>, <<>>)

\* a section whose course_code attribute is the empty string
section_EmptyCode ==
    [SectionInfo(label_002, class_12346, <<>>, <<>>) EXCEPT !.has_course_code = TRUE]

\* the Section the parser returns for the anchor "A-I 285 - 555V"
section_A_I_555V ==
    parse_section_text_optimized(code_A_I_285 \o Dash \o <<"5", "5", "5", "V">>, strm_2258, class_56789)

OptimizedSections == {
    section_MATH_001, section_MATH_002, section_MATH_003, section_CMPSC_001,
    section_NoCode, section_EmptyCode, section_A_I_555V }

\* longest section list handed to a reconciler
MaxSections == 3

OptimizedLists == UNION {[1..n -> OptimizedSections] : n \in 0..MaxSections}

\* class_notes as parse_detailed_section_info leaves them
notes_Desc_Units == <<"C", "O", "U", "R", "S", "E", "_", "D", "E", "S", "C", ":", " ", "C", "a", "l", "c", "u", "l", "u", "s", " ", "o", "n", "e", " ", "|", " ", "U", "N", "I", "T", "S", ":", " ", "4">>

notes_Real_Req_Attr == <<"B", "r", "i", "n", "g", " ", "a", " ", "l", "a", "p", "t", "o", "p", " ", "|", " ", "E", "N", "R", "O", "L", "L", "M", "E", "N", "T", "_", "R", "E", "Q", ":", " ", "M", "A", "T", "H", " ", "2", "2", " ", "|", " ", "A", "T", "T", "R", "I", "B", "U", "T", "E", "S", ":", " ", "G", "Q">>

notes_AllMarkers == <<"C", "O", "U", "R", "S", "E", "_", "D", "E", "S", "C", ":", " ", "T", "o", "p", "i", "c", "s", " ", "i", "n", " ", "A", "I", " ", "|", " ", "E", "N", "R", "O", "L", "L", "M", "E", "N", "T", "_", "R", "E", "Q", ":", " ", "C", "M", "P", "S", "C", " ", "1", "3", "1", " ", "|", " ", "A", "T", "T", "R", "I", "B", "U", "T", "E", "S", ":", " ", "G", "S", " ", "|", " ", "U", "N", "I", "T", "S", ":", " ", "3", " ", "|", " ", "G", "R", "A", "D", "I", "N", "G", ":", " ", "S", "t", "a", "n", "d", "a", "r", "d", " ", "|", " ", "C", "A", "R", "E", "E", "R", ":", " ", "U", "n", "d", "e", "r", "g", "r", "a", "d", "u", "a", "t", "e">>

notes_Real == <<"B", "r", "i", "n", "g", " ", "a", " ", "l", "a", "p", "t", "o", "p">>

Lecture == <<"L", "e", "c", "t", "u", "r", "e">>

ComprehensiveSections == {
    ComprehensiveSectionInfo(code_MATH_140, label_001, class_12345, Lecture, notes_Desc_Units),
    ComprehensiveSectionInfo(code_MATH_140, label_002, class_12346, <<>>, <<>>),
    ComprehensiveSectionInfo(code_MATH_140, label_003, class_56789, <<"R", "e", "c", "i", "t", "a", "t", "i", "o", "n">>, notes_Real_Req_Attr),
    ComprehensiveSectionInfo(code_A_I_285, <<"5", "5", "5", "V">>, class_56789, Lecture, notes_AllMarkers),
    ComprehensiveSectionInfo(text_Invalid_Format, <<>>, class_12346, <<>>, notes_Real) }

ComprehensiveLists == UNION {[1..n -> ComprehensiveSections] : n \in 0..MaxSections}

\* number of scraper objects
NumScrapers == 2

Scrapers == 1..NumScrapers

\* number of reconciler calls made on one section list
MaxRuns == 2

(***************************************************************************)
(* Specification of the section parser: parse_sections_optimized runs over *)
(* the anchors of one search-result page.                                  *)
(***************************************************************************)
ClassifierIdle ==
    /\ section_arg = None
    /\ up_optimized = <<>>
    /\ up_scraper = <<>>

ParserIdle ==
    /\ anchors = <<>>
    /\ next_anchor = 1
    /\ sections = <<>>
    /\ parsed = <<>>

ReconcilerIdle ==
    /\ raw_sections = <<>>
    /\ courses_data = [s \in Scrapers |-> <<>>]
    /\ organize_runs = [s \in Scrapers |-> 0]
    /\ comp_sections = <<>>
    /\ comp_results = <<>>

WriterIdle ==
    /\ stats = <<>>
    /\ jsonl_file = <<>>

OrchestratorIdle ==
    /\ site_pages = {}
    /\ campus_filter = <<>>
    /\ max_workers = 0
    /\ max_detail_workers = 0
    /\ run_phase = "idle"
    /\ subject_tasks = <<>>
    /\ run_stats = <<>>
    /\ session_pool = 0
    /\ sessions_created = 0
    /\ client_sessions = 0
    /\ detail_tasks = <<>>
    /\ returned = <<>>

ComprehensiveIdle ==
    /\ comp_phase = "idle"
    /\ comp_tasks = <<>>
    /\ comp_stats = <<>>
    /\ comp_session_pool = 0
    /\ comp_returned = <<>>

EnhancedIdle ==
    /\ enh_phase = "idle"
    /\ enh_tasks = <<>>
    /\ enh_sections = <<>>
    /\ enh_courses_map = <<>>
    /\ enh_course_tasks = <<>>
    /\ enh_session_pool = 0
    /\ enh_courses_data = <<>>
    /\ enh_returned = <<>>

LimiterIdle ==
    /\ rate_limit_per_second = 0
    /\ clock = 0
    /\ request_lock = 0
    /\ last_request_times = <<>>
    /\ limiter_threads = <<>>
    /\ issued = <<>>

DetailParserIdle ==
    /\ detail_parser = "none"
    /\ detail_page = <<>>
    /\ detail_base = <<>>
    /\ detail_result = <<>>

SessionsIdle ==
    /\ sess_scraper = "none"
    /\ sess_pool = <<>>
    /\ sess_created = 0
    /\ sess_threads = <<>>
    /\ sess_tasks = <<>>
    /\ sess_main = <<>>

PipelineIdle == OrchestratorIdle /\ ComprehensiveIdle /\ EnhancedIdle /\ LimiterIdle /\ DetailParserIdle /\ SessionsIdle

InitParser ==
    /\ anchors \in Pages
    /\ next_anchor = 1
    /\ sections = <<>>
    /\ parsed = <<>>
    /\ ClassifierIdle
    /\ ReconcilerIdle
    /\ WriterIdle
    /\ PipelineIdle

\* one iteration of the loop of parse_sections_optimized: the match is parsed
\* and appended when the parser returned a Section
ParseAnchor ==
    /\ next_anchor <= Len(anchors)
    /\ LET m == anchors[next_anchor]
           section == parse_section_text_optimized(m.text, m.strm, m.class_nbr)
       IN /\ parsed' = <<section>>
          /\ sections' = IF section # None THEN Append(sections, section) ELSE sections
    /\ next_anchor' = next_anchor + 1
    /\ UNCHANGED <<anchors, classifier_vars, reconciler_vars, writer_vars, pipeline_vars>>

NextParser == ParseAnchor

SpecParser == InitParser /\ [][NextParser]_vars

(***************************************************************************)
(* Specification of the campus classifier: both variants are called on one *)
(* Section.                                                                *)
(***************************************************************************)
InitClassifier ==
    /\ section_arg \in ClassifierInputs
    /\ up_optimized = <<>>
    /\ up_scraper = <<>>
    /\ ParserIdle
    /\ ReconcilerIdle
    /\ WriterIdle
    /\ PipelineIdle

CallIsUniversityParkSection ==
    /\ up_optimized = <<>>
    /\ up_optimized' = <<is_university_park_section(section_arg)>>
    /\ UNCHANGED <<section_arg, up_scraper, parser_vars, reconciler_vars, writer_vars, pipeline_vars>>

CallIsUniversityPark ==
    /\ up_scraper = <<>>
    /\ up_scraper' = <<is_university_park(section_arg)>>
    /\ UNCHANGED <<section_arg, up_optimized, parser_vars, reconciler_vars, writer_vars, pipeline_vars>>

NextClassifier == CallIsUniversityParkSection \/ CallIsUniversityPark

SpecClassifier == InitClassifier /\ [][NextClassifier]_vars

(***************************************************************************)
(* Specification of the course reconcilers: one section list is handed to  *)
(* organize_sections_by_course of some scraper, or to organize_courses,    *)
(* repeatedly.                                                             *)
(***************************************************************************)
\* number of organize_sections_by_course calls made so far
TotalRuns == sum(organize_runs)

InitReconciler ==
    /\ \/ raw_sections \in OptimizedLists /\ comp_sections = <<>>
       \/ raw_sections = <<>> /\ comp_sections \in ComprehensiveLists
    /\ courses_data = [s \in Scrapers |-> <<>>]
    /\ organize_runs = [s \in Scrapers |-> 0]
    /\ comp_results = <<>>
    /\ WriterIdle
    /\ ParserIdle
    /\ ClassifierIdle
    /\ PipelineIdle

\* scraper s runs organize_sections_by_course(raw_sections)
OrganizeSectionsByCourse(s) ==
    /\ TotalRuns < MaxRuns
    /\ courses_data' = [courses_data EXCEPT
           ![s] = organize_sections_by_course(raw_sections, courses_data[s], TotalRuns + 1)]
    /\ raw_sections' = SectionsAfterGrouping(raw_sections)
    /\ organize_runs' = [organize_runs EXCEPT ![s] = organize_runs[s] + 1]
    /\ UNCHANGED <<comp_sections, comp_results, writer_vars, parser_vars, classifier_vars, pipeline_vars>>

\* a dict returned earlier holds the same section objects as the dict
\* returned now, so it sees their class_notes as they are now
SharedSections(earlier, courses) ==
    [i \in DOMAIN earlier |->
        [earlier[i] EXCEPT !.value.sections = DictGet(courses, earlier[i].key).sections]]

\* organize_courses(comp_sections) is called and its result kept
OrganizeCourses ==
    /\ Len(comp_results) < MaxRuns
    /\ LET result == organize_courses(comp_sections, Len(comp_results) + 1)
       IN /\ comp_results' =
                Append([r \in DOMAIN comp_results |->
                           SharedSections(comp_results[r], result.courses)],
                       result.courses)
          /\ comp_sections' = result.sections
    /\ UNCHANGED <<raw_sections, courses_data, organize_runs, writer_vars, parser_vars,
                   classifier_vars, pipeline_vars>>

NextReconciler == (\E s \in Scrapers : OrganizeSectionsByCourse(s)) \/ OrganizeCourses

SpecReconciler == InitReconciler /\ [][NextReconciler]_vars

(***************************************************************************)
(* Specification of the result writer: main() of scraper_optimized.py      *)
(* organizes the scraped sections once; the aggregates of a course are     *)
(* read and the courses are saved as JSON Lines.                           *)
(***************************************************************************)
InitWriter ==
    /\ raw_sections \in OptimizedLists
    /\ courses_data = [s \in Scrapers |-> <<>>]
    /\ organize_runs = [s \in Scrapers |-> 0]
    /\ comp_sections = <<>>
    /\ comp_results = <<>>
    /\ WriterIdle
    /\ ParserIdle
    /\ ClassifierIdle
    /\ PipelineIdle

\* scrape_all_courses, called once by main() on its scraper, organizes the
\* scraped sections
ScrapeAllCourses ==
    /\ TotalRuns = 0
    /\ OrganizeSectionsByCourse(1)

\* the five aggregates of one OptimizedCourseData
CourseStats(course_data) ==
    [course_code |-> course_data.course_info.course_code,
     total_capacity |-> get_total_capacity(course_data),
     total_enrollment |-> get_total_enrollment(course_data),
     available_seats |-> get_available_seats(course_data),
     section_count |-> get_section_count(course_data),
     campuses |-> get_campuses(course_data)]

\* the aggregates of one course of the scraper of main() are read
ReadStats ==
    /\ \E i \in DOMAIN courses_data[1] : stats' = <<CourseStats(courses_data[1][i].value)>>
    /\ UNCHANGED <<jsonl_file, reconciler_vars, parser_vars, classifier_vars, pipeline_vars>>

\* the ways list(get_campuses()) can come out for the courses of a dict
CampusLists(data) ==
    {lists \in [DOMAIN data -> UNION {ListsOf(get_campuses(data[i].value)) : i \in DOMAIN data}] :
        \A i \in DOMAIN data : lists[i] \in ListsOf(get_campuses(data[i].value))}

\* save_optimized_results(courses_data, output_file, 'jsonl'): the file is
\* rewritten with one line per entry of the dict of the scraper of main()
SaveOptimizedResults ==
    /\ \E lists \in CampusLists(courses_data[1]) :
          jsonl_file' = << [i \in DOMAIN courses_data[1] |->
                               JsonlRecord(courses_data[1][i].value, lists[i])] >>
    /\ UNCHANGED <<stats, reconciler_vars, parser_vars, classifier_vars, pipeline_vars>>

NextWriter == ScrapeAllCourses \/ ReadStats \/ SaveOptimizedResults

SpecWriter == InitWriter /\ [][NextWriter]_vars

(***************************************************************************)
(* Specification of the fetch orchestrator of scraper_optimized.py: one    *)
(* call of scrape_all_courses.  The calling thread gets the subjects, runs *)
(* the subject pool, organizes the sections, runs the enrichment pool and  *)
(* returns; the worker threads of the two pools run their tasks in any     *)
(* interleaving, and the caller of the scraper may hold sessions of the    *)
(* session pool itself.                                                    *)
(***************************************************************************)
\* parse_sections_optimized on the matches of a page, from match i on
RECURSIVE ParseSectionsFrom(_, _, _)
ParseSectionsFrom(matches, i, page_sections) ==
    IF i > Len(matches) THEN page_sections
    ELSE LET section == parse_section_text_optimized(
                            matches[i].text, matches[i].strm, matches[i].class_nbr)
         IN ParseSectionsFrom(matches, i + 1,
                IF section # None THEN Append(page_sections, section) ELSE page_sections)

parse_sections_optimized(matches) == ParseSectionsFrom(matches, 1, <<>>)

\* Response.raise_for_status(): raises for a client or server error status
raise_for_status(response) == response.status_code >= 400 /\ response.status_code < 600

\* the search-result pages a subject can have
page_MATH ==
    << [strm |-> strm_2258, class_nbr |-> class_12345,
        text |-> FullAnchor(code_MATH_140, label_001, University_Park)],
       [strm |-> strm_2258, class_nbr |-> class_56789,
        text |-> FullAnchor(code_MATH_140, label_001W, World_Campus)] >>

page_CMPSC ==
    << [strm |-> strm_2258, class_nbr |-> class_12345,
        text |-> FullAnchor(code_CMPSC_131, label_001, University_Park)] >>

page_NoCourse ==
    << [strm |-> strm_2258, class_nbr |-> class_12345, text |-> text_Invalid_Format] >>

\* a page of another subject that lists a further section of MATH 140
page_MATH_002 ==
    << [strm |-> strm_2258, class_nbr |-> class_12346,
        text |-> FullAnchor(code_MATH_140, label_002, University_Park)] >>

SubjectPages == {<<>>, page_MATH, page_CMPSC, page_NoCourse}

\* a page with sections of branch campuses whose labels have no suffix
page_Branch ==
    << [strm |-> strm_2258, class_nbr |-> class_12345,
        text |-> FullAnchor(code_MATH_140, label_001, World_Campus)],
       [strm |-> strm_2258, class_nbr |-> class_56789,
        text |-> FullAnchor(code_CMPSC_131, label_002, Berks)] >>

\* the pages of a site that lists branch-campus sections
BranchCampusPages == {page_Branch, page_CMPSC}

\* the pages of a site on which two subjects list sections of one course
SharedCoursePages == {page_MATH, page_MATH_002, page_CMPSC}

\* what the server does to the requests of one task: a request raises
\* (timeout, connection error), or the deciding response has this status and
\* these showClassDetails matches in its text
ResponsesOf(pages) ==
    {[raises |-> TRUE, status_code |-> 0, matches |-> <<>>]}
        \cup [raises : {FALSE}, status_code : {500, 204}, matches : {<<>>}]
        \cup [raises : {FALSE}, status_code : {200}, matches : pages]

SubjectResponses == ResponsesOf(SubjectPages)

\* _scrape_subject_internal_optimized with the subject's checkbox selected:
\* the exception is logged and raised again, else the page is parsed
scrape_subject_internal_optimized(response) ==
    IF response.raises \/ raise_for_status(response)
    THEN [raised |-> TRUE, sections |-> <<>>]
    ELSE [raised |-> FALSE, sections |-> parse_sections_optimized(response.matches)]

\* what the task of a subject gives for each answer to its requests
SubjectResults ==
    [response \in ResponsesOf(SubjectPages \cup SharedCoursePages \cup BranchCampusPages) |->
        scrape_subject_internal_optimized(response)]

ALL == <<"A", "L", "L">>

CampusFilters == {UP, <<"u", "p">>, ALL}

\* the sections of one completed future that scrape_subjects_parallel keeps
FilterForCampus(filter, task_sections) ==
    IF Upper(filter) = UP
    THEN SelectSeq(task_sections, is_university_park_section)
    ELSE task_sections

\* all_sections.extend(...) for one completed future
ExtendAllSections_Replace(all_sections, filter, task_sections) ==
    IF task_sections # <<>> THEN FilterForCampus(filter, task_sections) ELSE all_sections

ExtendAllSections(all_sections, filter, task_sections) ==
    IF task_sections # <<>>
    THEN all_sections \o FilterForCampus(filter, task_sections)
    ELSE all_sections

\* most subjects the search page lists
NumSubjects == 2

\* largest worker count of the subject pool
MaxWorkers == 2

\* largest worker count of the enrichment pool
MaxDetailWorkers == 1

\* most sessions the caller of the scraper holds itself
MaxClientSessions == 1

QueuedTask ==
    [state |-> "queued", has_session |-> FALSE, response |-> <<>>, raised |-> FALSE,
     sections |-> <<>>, collected |-> FALSE]

InitialStats == [processed_subjects |-> 0, failed_subjects |-> <<>>, failed_details |-> 0,
                 total_subjects |-> 0, unique_courses |-> 0, total_sections |-> 0]

\* OptimizedLionPathScraper(max_workers, max_detail_workers): the session
\* pool holds max_workers + max_detail_workers sessions
ScraperOn(pages) ==
    /\ site_pages = pages
    /\ campus_filter \in CampusFilters
    /\ max_workers \in 0..MaxWorkers
    /\ max_detail_workers \in 0..MaxDetailWorkers
    /\ run_phase = "start"
    /\ subject_tasks = <<>>
    /\ run_stats = InitialStats
    /\ session_pool = max_workers + max_detail_workers
    /\ sessions_created = 0
    /\ client_sessions = 0
    /\ detail_tasks = <<>>
    /\ returned = <<>>
    /\ ComprehensiveIdle
    /\ EnhancedIdle
    /\ LimiterIdle
    /\ DetailParserIdle
    /\ SessionsIdle
    /\ ParserIdle
    /\ ClassifierIdle
    /\ ReconcilerIdle
    /\ WriterIdle

\* get_session(): a session of the pool, or a new one when the pool is empty
SessionPoolAfterGet == IF session_pool > 0 THEN session_pool - 1 ELSE 0

SessionsCreatedAfterGet == IF session_pool > 0 THEN sessions_created ELSE sessions_created + 1

\* the sessions a task that holds one gives back when it ends, with the mutant
\* that gives the session back only when the task did not raise
SessionsReturnedByTask_OnSuccess(raised) == IF raised THEN 0 ELSE 1

\* try: ... finally: self.return_session(session)
SessionsReturnedByTask(raised) == 1

\* the caller of the scraper takes a session and keeps it; the caller is the
\* thread that runs scrape_all_courses, so it does this before or after the run
ClientGetSession ==
    /\ run_phase \in {"start", "returned"}
    /\ client_sessions < MaxClientSessions
    /\ session_pool' = SessionPoolAfterGet
    /\ sessions_created' = SessionsCreatedAfterGet
    /\ client_sessions' = client_sessions + 1
    /\ UNCHANGED <<site_pages, campus_filter, max_workers, max_detail_workers, run_phase, subject_tasks,
                   run_stats, detail_tasks, returned>>
    /\ UNCHANGED <<parser_vars, classifier_vars, reconciler_vars, writer_vars,
                   comprehensive_vars, enhanced_vars, limiter_vars, detail_vars, session_vars>>

\* the caller gives a session back with return_session
ClientReturnSession ==
    /\ run_phase \in {"start", "returned"}
    /\ client_sessions > 0
    /\ session_pool' = session_pool + 1
    /\ client_sessions' = client_sessions - 1
    /\ UNCHANGED <<site_pages, campus_filter, max_workers, max_detail_workers, run_phase, subject_tasks,
                   run_stats, sessions_created, detail_tasks, returned>>
    /\ UNCHANGED <<parser_vars, classifier_vars, reconciler_vars, writer_vars,
                   comprehensive_vars, enhanced_vars, limiter_vars, detail_vars, session_vars>>

\* scrape_all_courses up to the submission of the subject tasks: the request
\* of get_all_subjects fails, or the thread pool cannot be made, and the
\* handler of scrape_all_courses returns {}; else the n subjects found are
\* submitted.  get_all_subjects takes a session and gives it back.
GetAllSubjects ==
    /\ run_phase = "start"
    /\ sessions_created' = SessionsCreatedAfterGet
    /\ session_pool' = SessionPoolAfterGet + 1
    /\ \/ /\ run_phase' = "returned"
          /\ returned' = << <<>> >>
          /\ UNCHANGED <<subject_tasks, run_stats>>
       \/ \E n \in 0..NumSubjects :
             /\ run_stats' = [run_stats EXCEPT !.total_subjects = n]
             /\ IF max_workers = 0
                THEN /\ run_phase' = "returned"
                     /\ returned' = << <<>> >>
                     /\ UNCHANGED subject_tasks
                ELSE /\ run_phase' = "subjects"
                     /\ subject_tasks' = [i \in 1..n |-> QueuedTask]
                     /\ UNCHANGED returned
    /\ UNCHANGED <<site_pages, campus_filter, max_workers, max_detail_workers, client_sessions,
                   detail_tasks>>
    /\ UNCHANGED <<parser_vars, classifier_vars, reconciler_vars, writer_vars,
                   comprehensive_vars, enhanced_vars, limiter_vars, detail_vars, session_vars>>

Running(tasks) == {i \in DOMAIN tasks : tasks[i].state = "running"}

\* a worker of the subject pool starts scrape_subject_optimized(subject i):
\* it takes a session
StartSubjectTask(i) ==
    /\ run_phase = "subjects"
    /\ subject_tasks[i].state = "queued"
    /\ Cardinality(Running(subject_tasks)) < max_workers
    /\ session_pool' = SessionPoolAfterGet
    /\ sessions_created' = SessionsCreatedAfterGet
    /\ subject_tasks' = [subject_tasks EXCEPT ![i].state = "running", ![i].has_session = TRUE]
    /\ UNCHANGED <<site_pages, campus_filter, max_workers, max_detail_workers, run_phase, run_stats,
                   client_sessions, detail_tasks, returned>>
    /\ UNCHANGED <<parser_vars, classifier_vars, reconciler_vars, writer_vars,
                   comprehensive_vars, enhanced_vars, limiter_vars, detail_vars, session_vars>>

\* the requests of subject i are answered; the task returns its sections or
\* raises, and its finally clause gives the session back
FinishSubjectTask(i) ==
    /\ run_phase = "subjects"
    /\ subject_tasks[i].state = "running"
    /\ \E response \in ResponsesOf(site_pages) :
          LET result == SubjectResults[response]
              given_back == SessionsReturnedByTask(result.raised)
          IN /\ subject_tasks' = [subject_tasks EXCEPT
                    ![i].state = "done", ![i].has_session = (given_back = 0),
                    ![i].response = <<response>>,
                    ![i].raised = result.raised, ![i].sections = result.sections]
             /\ session_pool' = session_pool + given_back
    /\ UNCHANGED <<site_pages, campus_filter, max_workers, max_detail_workers, run_phase, run_stats,
                   sessions_created, client_sessions, detail_tasks, returned>>
    /\ UNCHANGED <<parser_vars, classifier_vars, reconciler_vars, writer_vars,
                   comprehensive_vars, enhanced_vars, limiter_vars, detail_vars, session_vars>>

\* one iteration of the as_completed loop of scrape_subjects_parallel
CollectSubjectTask(i) ==
    /\ run_phase = "subjects"
    /\ subject_tasks[i].state = "done"
    /\ ~subject_tasks[i].collected
    /\ subject_tasks' = [subject_tasks EXCEPT ![i].collected = TRUE]
    /\ IF subject_tasks[i].raised
       THEN /\ run_stats' = [run_stats EXCEPT
                   !.failed_subjects = Append(run_stats.failed_subjects, i)]
            /\ UNCHANGED raw_sections
       ELSE /\ raw_sections' =
                   ExtendAllSections(raw_sections, campus_filter, subject_tasks[i].sections)
            /\ run_stats' = [run_stats EXCEPT
                   !.processed_subjects = run_stats.processed_subjects + 1]
    /\ UNCHANGED <<site_pages, campus_filter, max_workers, max_detail_workers, run_phase, session_pool,
                   sessions_created, client_sessions, detail_tasks, returned>>
    /\ UNCHANGED <<courses_data, organize_runs, comp_sections, comp_results>>
    /\ UNCHANGED <<parser_vars, classifier_vars, writer_vars, comprehensive_vars, enhanced_vars, limiter_vars, detail_vars, session_vars>>

AllCollected(tasks) == \A i \in DOMAIN tasks : tasks[i].collected

\* scrape_subjects_parallel returns all_sections, its futures are dropped, and
\* scrape_all_courses organizes the sections by course
OrganizeRawSections ==
    /\ run_phase = "subjects"
    /\ AllCollected(subject_tasks)
    /\ run_phase' = "organized"
    /\ subject_tasks' = <<>>
    /\ courses_data' = [courses_data EXCEPT
           ![1] = organize_sections_by_course(raw_sections, courses_data[1], 1)]
    /\ raw_sections' = SectionsAfterGrouping(raw_sections)
    /\ organize_runs' = [organize_runs EXCEPT ![1] = organize_runs[1] + 1]
    /\ UNCHANGED <<site_pages, campus_filter, max_workers, max_detail_workers, run_stats,
                   session_pool, sessions_created, client_sessions, detail_tasks, returned>>
    /\ UNCHANGED <<comp_sections, comp_results>>
    /\ UNCHANGED <<parser_vars, classifier_vars, writer_vars, comprehensive_vars, enhanced_vars, limiter_vars, detail_vars, session_vars>>

\* extract_course_details_parallel makes its thread pool and submits one
\* enhance_course_data task per course; ThreadPoolExecutor raises ValueError
\* for a worker count of 0 and the handler of scrape_all_courses returns {}
SubmitDetailTasks ==
    /\ run_phase = "organized"
    /\ IF max_detail_workers = 0
       THEN /\ run_phase' = "returned"
            /\ returned' = << <<>> >>
            /\ UNCHANGED detail_tasks
       ELSE /\ run_phase' = "details"
            /\ detail_tasks' = [c \in DOMAIN courses_data[1] |-> QueuedTask]
            /\ UNCHANGED returned
    /\ UNCHANGED <<site_pages, campus_filter, max_workers, max_detail_workers, subject_tasks, run_stats,
                   session_pool, sessions_created, client_sessions>>
    /\ UNCHANGED <<parser_vars, classifier_vars, reconciler_vars, writer_vars,
                   comprehensive_vars, enhanced_vars, limiter_vars, detail_vars, session_vars>>

\* a worker of the enrichment pool starts enhance_course_data for course c:
\* it takes a session
StartDetailTask(c) ==
    /\ run_phase = "details"
    /\ detail_tasks[c].state = "queued"
    /\ Cardinality(Running(detail_tasks)) < max_detail_workers
    /\ session_pool' = SessionPoolAfterGet
    /\ sessions_created' = SessionsCreatedAfterGet
    /\ detail_tasks' = [detail_tasks EXCEPT ![c].state = "running", ![c].has_session = TRUE]
    /\ UNCHANGED <<site_pages, campus_filter, max_workers, max_detail_workers, run_phase, subject_tasks,
                   run_stats, client_sessions, returned>>
    /\ UNCHANGED <<parser_vars, classifier_vars, reconciler_vars, writer_vars,
                   comprehensive_vars, enhanced_vars, limiter_vars, detail_vars, session_vars>>

\* enhance_course_data for course c ends.  get_course_level_details catches
\* every exception of its request, and parse_course_level_info always fails
\* on its description pattern and returns base_course_info, so the task
\* returns the course as it was; its finally clause gives the session back.
FinishDetailTask(c) ==
    /\ run_phase = "details"
    /\ detail_tasks[c].state = "running"
    /\ detail_tasks' = [detail_tasks EXCEPT
           ![c].state = "done", ![c].has_session = (SessionsReturnedByTask(FALSE) = 0)]
    /\ session_pool' = session_pool + SessionsReturnedByTask(FALSE)
    /\ UNCHANGED <<site_pages, campus_filter, max_workers, max_detail_workers, run_phase, subject_tasks,
                   run_stats, sessions_created, client_sessions, returned>>
    /\ UNCHANGED <<parser_vars, classifier_vars, reconciler_vars, writer_vars,
                   comprehensive_vars, enhanced_vars, limiter_vars, detail_vars, session_vars>>

\* one iteration of the as_completed loop of extract_course_details_parallel:
\* the course is stored back under its code
CollectDetailTask(c) ==
    /\ run_phase = "details"
    /\ detail_tasks[c].state = "done"
    /\ ~detail_tasks[c].collected
    /\ detail_tasks' = [detail_tasks EXCEPT ![c].collected = TRUE]
    /\ UNCHANGED <<site_pages, campus_filter, max_workers, max_detail_workers, run_phase, subject_tasks,
                   run_stats, session_pool, sessions_created, client_sessions, returned>>
    /\ UNCHANGED <<parser_vars, classifier_vars, reconciler_vars, writer_vars,
                   comprehensive_vars, enhanced_vars, limiter_vars, detail_vars, session_vars>>

\* scrape_all_courses updates the statistics and returns self.courses_data
ReturnCourses ==
    /\ run_phase = "details"
    /\ AllCollected(detail_tasks)
    /\ run_phase' = "returned"
    /\ run_stats' = [run_stats EXCEPT
           !.unique_courses = Len(courses_data[1]),
           !.total_sections =
               sum([c \in DOMAIN courses_data[1] |-> Len(courses_data[1][c].value.sections)])]
    /\ returned' = <<courses_data[1]>>
    /\ UNCHANGED <<site_pages, campus_filter, max_workers, max_detail_workers, subject_tasks,
                   session_pool, sessions_created, client_sessions, detail_tasks>>
    /\ UNCHANGED <<parser_vars, classifier_vars, reconciler_vars, writer_vars,
                   comprehensive_vars, enhanced_vars, limiter_vars, detail_vars, session_vars>>

InitOrchestrator == ScraperOn(SubjectPages)

NextOrchestrator ==
    \/ ClientGetSession
    \/ ClientReturnSession
    \/ GetAllSubjects
    \/ (\E i \in DOMAIN subject_tasks : StartSubjectTask(i))
    \/ (\E i \in DOMAIN subject_tasks : FinishSubjectTask(i))
    \/ (\E i \in DOMAIN subject_tasks : CollectSubjectTask(i))
    \/ OrganizeRawSections
    \/ SubmitDetailTasks
    \/ (\E c \in DOMAIN detail_tasks : StartDetailTask(c))
    \/ (\E c \in DOMAIN detail_tasks : FinishDetailTask(c))
    \/ (\E c \in DOMAIN detail_tasks : CollectDetailTask(c))
    \/ ReturnCourses

SpecOrchestrator == InitOrchestrator /\ [][NextOrchestrator]_vars

\* the same run against a site on which two subjects list sections of MATH 140
InitSharedCourse == ScraperOn(SharedCoursePages)

SpecSharedCourse == InitSharedCourse /\ [][NextOrchestrator]_vars

\* the same run against a site that lists branch-campus sections
InitBranchCampus == ScraperOn(BranchCampusPages)

SpecBranchCampus == InitBranchCampus /\ [][NextOrchestrator]_vars

(***************************************************************************)
(* Specification of the fetch orchestrator of scraper_comprehensive.py:    *)
(* one call of ComprehensiveLionPathScraper.scrape_all_courses.  Each      *)
(* subject task fetches the subject page and then the detail page of every *)
(* section on it.                                                          *)
(***************************************************************************)
\* the characters of s that are not whitespace: the class \S over s
NonSpace(s) == {s[k] : k \in DOMAIN s} \ SpaceChars

\* re.match(r'^([A-Z]+-?[A-Z]*\s+\d+[A-Z]*)\s*-\s*(\S+)', text): every
\* quantifier is greedy and giving back characters never helps, since the
\* character given back is not one the next element accepts
MatchCourseAndSection(text) ==
    LET n1 == RunEnd(text, 1, UpperChars)
        e  == IF n1 >= 1 /\ n1 < Len(text) /\ text[n1 + 1] = "-"
              THEN RunEnd(text, n1 + 2, UpperChars)
              ELSE n1
        w  == RunEnd(text, e + 1, SpaceChars)
        d  == RunEnd(text, w + 1, DigitChars)
        c  == RunEnd(text, d + 1, UpperChars)
        s2 == RunEnd(text, c + 1, SpaceChars)
        s3 == RunEnd(text, s2 + 2, SpaceChars)
        g  == RunEnd(text, s3 + 1, NonSpace(text))
    IN IF /\ n1 >= 1
          /\ w >= e + 1
          /\ d >= w + 1
          /\ s2 < Len(text)
          /\ text[s2 + 1] = "-"
          /\ g >= s3 + 1
       THEN [ok |-> TRUE, course_code |-> SubSeq(text, 1, c), section |-> SubSeq(text, s3 + 1, g)]
       ELSE [ok |-> FALSE, course_code |-> <<>>, section |-> <<>>]

\* text.split('-')[0].strip() if '-' in text else text
BeforeFirstHyphen(text) ==
    IF Contains(text, <<"-">>)
    THEN Strip(SubSeq(text, 1, FindFirst(text, <<"-">>) - 1))
    ELSE text

branch_keywords == <<<<"A", "B", "I", "N", "G", "T", "O", "N">>, <<"A", "L", "T", "O", "O", "N", "A">>, <<"B", "E", "R", "K", "S">>, <<"H", "A", "Z", "L", "E", "T", "O", "N">>>>

branch_campuses == <<<<"A", "b", "i", "n", "g", "t", "o", "n">>, <<"A", "l", "t", "o", "o", "n", "a">>, <<"B", "e", "r", "k", "s">>, <<"H", "a", "z", "l", "e", "t", "o", "n">>, <<"E", "r", "i", "e">>, <<"H", "a", "r", "r", "i", "s", "b", "u", "r", "g">>>>

\* "Determine campus from section number patterns"
CampusFromSection(text, section_label) ==
    IF section_label = <<>>
    THEN <<>>
    ELSE IF EndsWith(section_label, "W")
    THEN World_Campus
    ELSE IF \E k \in DOMAIN branch_keywords : Contains(Upper(text), branch_keywords[k])
    THEN LET k == CHOOSE j \in DOMAIN branch_campuses :
                     /\ Contains(Upper(text), Upper(branch_campuses[j]))
                     /\ \A i \in 1..(j - 1) : ~Contains(Upper(text), Upper(branch_campuses[i]))
         IN branch_campuses[k]
    ELSE UP

\* the ComprehensiveSectionInfo that parse_subject_sections builds for one
\* match; the search-result pages of the model hold no enrollment, status,
\* instructor or meeting text next to the anchor
ParsedSubjectSection(m) ==
    LET text == Strip(m.text)
        course_match == MatchCourseAndSection(text)
        course_code == IF course_match.ok THEN course_match.course_code
                       ELSE BeforeFirstHyphen(text)
    IN ComprehensiveSectionInfo(course_code, course_match.section, m.class_nbr, <<>>, <<>>)
           @@ [campus |-> CampusFromSection(text, course_match.section)]

\* ComprehensiveLionPathScraper.parse_subject_sections
parse_subject_sections(matches) == [k \in DOMAIN matches |-> ParsedSubjectSection(matches[k])]

\* a detail page: the stripped text of each element the detail parser looks
\* for, "" when the page has no such element
DetailPage(descr_long, requisite_long, units_range, classnote_long) ==
    [descr_long |-> descr_long,
     requisite_long |-> requisite_long,
     crse_attr_long |-> <<>>,
     units_range |-> units_range,
     grade_basis |-> <<>>,
     component_long |-> <<>>,
     career |-> <<>>,
     classnote_long |-> classnote_long]

\* section.class_notes with one more " | "-separated marker
AddMarker(class_notes, n, value) ==
    IF class_notes # <<>>
    THEN class_notes \o <<" ", "|", " ">> \o marker_names[n] \o <<":", " ">> \o value
    ELSE marker_names[n] \o <<":", " ">> \o value

No_Enrollment_Requirements == <<"N", "o", " ", "E", "n", "r", "o", "l", "l", "m", "e", "n", "t", " ", "R", "e", "q", "u", "i", "r", "e", "m", "e", "n", "t", "s">>

No_Class_Attributes == <<"N", "o", " ", "C", "l", "a", "s", "s", " ", "A", "t", "t", "r", "i", "b", "u", "t", "e", "s">>

No_Class_Notes == <<"N", "o", " ", "C", "l", "a", "s", "s", " ", "N", "o", "t", "e", "s">>

StartsWith(s, prefix) == Len(s) >= Len(prefix) /\ SubSeq(s, 1, Len(prefix)) = prefix

\* ComprehensiveLionPathScraper.parse_detailed_section_info: the course-level
\* texts of the page are stored as markers in class_notes
parse_detailed_section_info(page, base_section) ==
    LET n1 == IF Len(page.descr_long) > 10
              THEN marker_names[1] \o <<":", " ">> \o page.descr_long
              ELSE base_section.class_notes
        n2 == IF page.requisite_long # <<>> /\ page.requisite_long # No_Enrollment_Requirements
              THEN AddMarker(n1, 2, page.requisite_long) ELSE n1
        n3 == IF page.crse_attr_long # <<>> /\ page.crse_attr_long # No_Class_Attributes
              THEN AddMarker(n2, 3, page.crse_attr_long) ELSE n2
        n4 == IF page.units_range # <<>> THEN AddMarker(n3, 4, page.units_range) ELSE n3
        n5 == IF page.grade_basis # <<>> THEN AddMarker(n4, 5, page.grade_basis) ELSE n4
        n6 == IF page.career # <<>> THEN AddMarker(n5, 6, page.career) ELSE n5
        n7 == IF page.classnote_long # <<>> /\ page.classnote_long # No_Class_Notes
              THEN IF n6 # <<>> /\ ~StartsWith(n6, marker_names[1])
                   THEN page.classnote_long \o <<" ", "|", " ">> \o n6
                   ELSE IF n6 = <<>> THEN page.classnote_long ELSE n6
              ELSE n6
    IN [base_section EXCEPT
           !.class_notes = n7,
           !.section_type = IF page.component_long # <<>> THEN page.component_long ELSE @]

detail_Calculus == DetailPage(<<"C", "a", "l", "c", "u", "l", "u", "s", " ", "o", "n", "e">>, <<>>, <<"4">>, <<>>)

detail_Laptop == DetailPage(<<>>, <<"M", "A", "T", "H", " ", "2", "2">>, <<>>, notes_Real)

detail_Analysis == DetailPage(<<"A", "n", "a", "l", "y", "s", "i", "s", " ", "t", "w", "o">>, No_Enrollment_Requirements, <<"3">>, No_Class_Notes)

DetailPages == {detail_Calculus, detail_Laptop, detail_Analysis}

\* what the server does to the request of get_section_details
DetailResponses ==
    {[raises |-> TRUE, status_code |-> 0, page |-> DetailPage(<<>>, <<>>, <<>>, <<>>)]}
        \cup [raises : {FALSE}, status_code : {200}, page : DetailPages]

\* ComprehensiveLionPathScraper.get_section_details
get_section_details(response, section) ==
    IF ~response.raises /\ response.status_code = 200
    THEN parse_detailed_section_info(response.page, section)
    ELSE section

\* ComprehensiveLionPathScraper.scrape_subject with the subject's checkbox
\* selected: every exception is caught and [] returned, and [] is returned
\* for a status other than 200; details[k] answers the detail request of the
\* k-th section
scrape_subject(response, details) ==
    IF response.raises \/ raise_for_status(response) \/ response.status_code # 200
    THEN <<>>
    ELSE LET parsed_sections == parse_subject_sections(response.matches)
         IN [k \in DOMAIN parsed_sections |-> get_section_details(details[k], parsed_sections[k])]

\* ComprehensiveLionPathScraper(max_workers, max_detail_workers) and the
\* campus_filter handed to scrape_all_courses ("UP" by default; main() hands
\* over None for --campus ALL, and no code of the scraper reads the argument)
InitComprehensive ==
    /\ site_pages = {}
    /\ campus_filter \in {UP, ALL}
    /\ max_workers \in 0..MaxWorkers
    /\ max_detail_workers \in 0..MaxDetailWorkers
    /\ comp_phase = "start"
    /\ comp_tasks = <<>>
    /\ comp_stats = InitialStats
    /\ comp_session_pool = max_workers + max_detail_workers
    /\ comp_returned = <<>>
    /\ run_phase = "idle"
    /\ subject_tasks = <<>>
    /\ run_stats = <<>>
    /\ session_pool = 0
    /\ sessions_created = 0
    /\ client_sessions = 0
    /\ detail_tasks = <<>>
    /\ returned = <<>>
    /\ EnhancedIdle
    /\ LimiterIdle
    /\ DetailParserIdle
    /\ SessionsIdle
    /\ ParserIdle
    /\ ClassifierIdle
    /\ ReconcilerIdle
    /\ WriterIdle

\* scrape_all_courses up to the submission of the subject tasks: when the
\* request of get_all_subjects fails or the thread pool cannot be made, the
\* handler returns self.courses_data
ComprehensiveGetAllSubjects ==
    /\ comp_phase = "start"
    /\ comp_session_pool > 0
    /\ \/ /\ comp_phase' = "returned"
          /\ comp_returned' = << <<>> >>
          /\ UNCHANGED <<comp_tasks, comp_stats>>
       \/ \E n \in 0..NumSubjects :
             /\ comp_stats' = [comp_stats EXCEPT !.total_subjects = n]
             /\ IF max_workers = 0
                THEN /\ comp_phase' = "returned"
                     /\ comp_returned' = << <<>> >>
                     /\ UNCHANGED comp_tasks
                ELSE /\ comp_phase' = "subjects"
                     /\ comp_tasks' = [i \in 1..n |-> QueuedTask]
                     /\ UNCHANGED comp_returned
    /\ UNCHANGED <<comp_session_pool, orchestrator_vars, enhanced_vars>>
    /\ UNCHANGED <<parser_vars, classifier_vars, reconciler_vars, writer_vars, limiter_vars, detail_vars, session_vars>>

\* a worker starts scrape_subject(subject i): get_session waits for a session
StartScrapeSubject(i) ==
    /\ comp_phase = "subjects"
    /\ comp_tasks[i].state = "queued"
    /\ Cardinality(Running(comp_tasks)) < max_workers
    /\ comp_session_pool > 0
    /\ comp_session_pool' = comp_session_pool - 1
    /\ comp_tasks' = [comp_tasks EXCEPT ![i].state = "running", ![i].has_session = TRUE]
    /\ UNCHANGED <<comp_phase, comp_stats, comp_returned, orchestrator_vars, enhanced_vars>>
    /\ UNCHANGED <<parser_vars, classifier_vars, reconciler_vars, writer_vars, limiter_vars, detail_vars, session_vars>>

\* the requests of subject i are answered and the task returns its list; the
\* finally clause gives the session back
FinishScrapeSubject(i) ==
    /\ comp_phase = "subjects"
    /\ comp_tasks[i].state = "running"
    /\ \E response \in SubjectResponses :
       \E details \in [DOMAIN response.matches -> DetailResponses] :
          comp_tasks' = [comp_tasks EXCEPT
              ![i].state = "done", ![i].has_session = FALSE,
              ![i].response = <<response>>,
              ![i].sections = scrape_subject(response, details)]
    /\ comp_session_pool' = comp_session_pool + 1
    /\ UNCHANGED <<comp_phase, comp_stats, comp_returned, orchestrator_vars, enhanced_vars>>
    /\ UNCHANGED <<parser_vars, classifier_vars, reconciler_vars, writer_vars, limiter_vars, detail_vars, session_vars>>

\* one iteration of the as_completed loop of scrape_all_courses
CollectScrapeSubject(i) ==
    /\ comp_phase = "subjects"
    /\ comp_tasks[i].state = "done"
    /\ ~comp_tasks[i].collected
    /\ comp_tasks' = [comp_tasks EXCEPT ![i].collected = TRUE]
    /\ IF comp_tasks[i].raised
       THEN /\ comp_stats' = [comp_stats EXCEPT
                   !.failed_subjects = Append(comp_stats.failed_subjects, i)]
            /\ UNCHANGED comp_sections
       ELSE /\ comp_sections' = comp_sections \o comp_tasks[i].sections
            /\ comp_stats' = [comp_stats EXCEPT
                   !.processed_subjects = comp_stats.processed_subjects + 1]
    /\ UNCHANGED <<comp_phase, comp_session_pool, comp_returned, orchestrator_vars, enhanced_vars>>
    /\ UNCHANGED <<raw_sections, courses_data, organize_runs, comp_results>>
    /\ UNCHANGED <<parser_vars, classifier_vars, writer_vars, limiter_vars, detail_vars, session_vars>>

\* the subject pool is done: the sections are organized into courses, the
\* statistics updated and self.courses_data returned
ComprehensiveReturnCourses ==
    /\ comp_phase = "subjects"
    /\ AllCollected(comp_tasks)
    /\ comp_phase' = "returned"
    /\ LET result == organize_courses(comp_sections, 1)
       IN /\ comp_results' = <<result.courses>>
          /\ comp_sections' = result.sections
          /\ comp_returned' = <<result.courses>>
          /\ comp_stats' = [comp_stats EXCEPT
                 !.unique_courses = Len(result.courses),
                 !.total_sections =
                     sum([c \in DOMAIN result.courses |-> Len(result.courses[c].value.sections)])]
    /\ UNCHANGED <<comp_tasks, comp_session_pool, orchestrator_vars, enhanced_vars>>
    /\ UNCHANGED <<raw_sections, courses_data, organize_runs>>
    /\ UNCHANGED <<parser_vars, classifier_vars, writer_vars, limiter_vars, detail_vars, session_vars>>

NextComprehensive ==
    \/ ComprehensiveGetAllSubjects
    \/ (\E i \in DOMAIN comp_tasks : StartScrapeSubject(i))
    \/ (\E i \in DOMAIN comp_tasks : FinishScrapeSubject(i))
    \/ (\E i \in DOMAIN comp_tasks : CollectScrapeSubject(i))
    \/ ComprehensiveReturnCourses

SpecComprehensive == InitComprehensive /\ [][NextComprehensive]_vars

(***************************************************************************)
(* Specification of the fetch orchestrator of scraper_enhanced.py: one     *)
(* call of EnhancedLionPathScraper.scrape_all_courses.  get_session is     *)
(* session_pool.get(), which waits until the queue holds a session.  The   *)
(* sections and courses are kept by course code and section label only.    *)
(***************************************************************************)
EnhancedSection(course_code, section) ==
    [course_code |-> course_code, section |-> section, detailed |-> FALSE]

\* the lists scrape_subject can return: [] after a failed request or for a
\* page without sections, else the sections of the subject's page
EnhancedSubjectResults == {
    <<>>,
    <<EnhancedSection(code_MATH_140, label_001)>>,
    <<EnhancedSection(code_MATH_140, label_001), EnhancedSection(code_CMPSC_131, label_001)>>,
    <<EnhancedSection(code_A_I_285, label_002)>> }

\* courses_map: the sections grouped by course code, in order of first
\* occurrence
RECURSIVE GroupByCourse(_, _, _)
GroupByCourse(section_list, i, courses_map) ==
    IF i > Len(section_list) THEN courses_map
    ELSE LET course_code == section_list[i].course_code
             created == IF course_code \in DictKeys(courses_map)
                        THEN courses_map
                        ELSE DictSet(courses_map, course_code, <<>>)
         IN GroupByCourse(section_list, i + 1,
                DictSet(created, course_code,
                        Append(DictGet(created, course_code), section_list[i])))

\* EnhancedLionPathScraper(max_workers, max_detail_workers): the session
\* pool holds max_workers + max_detail_workers sessions
InitEnhanced ==
    /\ max_workers \in 0..MaxWorkers
    /\ max_detail_workers \in 0..MaxDetailWorkers
    /\ enh_phase = "start"
    /\ enh_tasks = <<>>
    /\ enh_sections = <<>>
    /\ enh_courses_map = <<>>
    /\ enh_course_tasks = <<>>
    /\ enh_session_pool = max_workers + max_detail_workers
    /\ enh_courses_data = <<>>
    /\ enh_returned = <<>>
    /\ site_pages = {}
    /\ campus_filter = UP
    /\ run_phase = "idle"
    /\ subject_tasks = <<>>
    /\ run_stats = <<>>
    /\ session_pool = 0
    /\ sessions_created = 0
    /\ client_sessions = 0
    /\ detail_tasks = <<>>
    /\ returned = <<>>
    /\ ComprehensiveIdle
    /\ LimiterIdle
    /\ DetailParserIdle
    /\ SessionsIdle
    /\ ParserIdle
    /\ ClassifierIdle
    /\ ReconcilerIdle
    /\ WriterIdle

\* scrape_all_courses up to the submission of the subject tasks;
\* get_all_subjects takes a session, returns [] when its request fails, and
\* gives the session back; ThreadPoolExecutor raises ValueError for a worker
\* count of 0 and the handler returns self.courses_data
EnhancedGetAllSubjects ==
    /\ enh_phase = "start"
    /\ enh_session_pool > 0
    /\ \E n \in 0..NumSubjects :
          IF max_workers = 0
          THEN /\ enh_phase' = "returned"
               /\ enh_returned' = <<enh_courses_data>>
               /\ UNCHANGED enh_tasks
          ELSE /\ enh_phase' = "subjects"
               /\ enh_tasks' = [i \in 1..n |-> QueuedTask]
               /\ UNCHANGED enh_returned
    /\ UNCHANGED <<enh_sections, enh_courses_map, enh_course_tasks, enh_session_pool,
                   enh_courses_data>>
    /\ UNCHANGED <<parser_vars, classifier_vars, reconciler_vars, writer_vars,
                   orchestrator_vars, comprehensive_vars, limiter_vars, detail_vars, session_vars>>

\* a worker starts scrape_subject(subject i): get_session waits for a session
EnhancedStartSubject(i) ==
    /\ enh_phase = "subjects"
    /\ enh_tasks[i].state = "queued"
    /\ Cardinality(Running(enh_tasks)) < max_workers
    /\ enh_session_pool > 0
    /\ enh_session_pool' = enh_session_pool - 1
    /\ enh_tasks' = [enh_tasks EXCEPT ![i].state = "running", ![i].has_session = TRUE]
    /\ UNCHANGED <<enh_phase, enh_sections, enh_courses_map, enh_course_tasks,
                   enh_courses_data, enh_returned>>
    /\ UNCHANGED <<parser_vars, classifier_vars, reconciler_vars, writer_vars,
                   orchestrator_vars, comprehensive_vars, limiter_vars, detail_vars, session_vars>>

\* the request of subject i is answered and scrape_subject returns its list;
\* the finally clause gives the session back
EnhancedFinishSubject(i) ==
    /\ enh_phase = "subjects"
    /\ enh_tasks[i].state = "running"
    /\ \E result \in EnhancedSubjectResults :
          enh_tasks' = [enh_tasks EXCEPT
              ![i].state = "done", ![i].has_session = FALSE, ![i].sections = result]
    /\ enh_session_pool' = enh_session_pool + 1
    /\ UNCHANGED <<enh_phase, enh_sections, enh_courses_map, enh_course_tasks,
                   enh_courses_data, enh_returned>>
    /\ UNCHANGED <<parser_vars, classifier_vars, reconciler_vars, writer_vars,
                   orchestrator_vars, comprehensive_vars, limiter_vars, detail_vars, session_vars>>

\* one iteration of the first as_completed loop
EnhancedCollectSubject(i) ==
    /\ enh_phase = "subjects"
    /\ enh_tasks[i].state = "done"
    /\ ~enh_tasks[i].collected
    /\ enh_tasks' = [enh_tasks EXCEPT ![i].collected = TRUE]
    /\ enh_sections' = enh_sections \o enh_tasks[i].sections
    /\ UNCHANGED <<enh_phase, enh_courses_map, enh_course_tasks, enh_session_pool,
                   enh_courses_data, enh_returned>>
    /\ UNCHANGED <<parser_vars, classifier_vars, reconciler_vars, writer_vars,
                   orchestrator_vars, comprehensive_vars, limiter_vars, detail_vars, session_vars>>

\* the sections are grouped into courses_map and the thread pool of the
\* detail jobs is made; it raises ValueError for a worker count of 0
EnhancedGroupSections ==
    /\ enh_phase = "subjects"
    /\ AllCollected(enh_tasks)
    /\ enh_courses_map' = GroupByCourse(enh_sections, 1, <<>>)
    /\ IF max_detail_workers = 0
       THEN /\ enh_phase' = "returned"
            /\ enh_returned' = <<enh_courses_data>>
       ELSE /\ enh_phase' = "submitting"
            /\ UNCHANGED enh_returned
    /\ UNCHANGED <<enh_tasks, enh_sections, enh_course_tasks, enh_session_pool,
                   enh_courses_data>>
    /\ UNCHANGED <<parser_vars, classifier_vars, reconciler_vars, writer_vars,
                   orchestrator_vars, comprehensive_vars, limiter_vars, detail_vars, session_vars>>

\* one iteration of the submission loop, run by the calling thread: it takes
\* a session, waiting for one if the queue is empty, and submits
\* get_course_details for the next course of courses_map
SubmitCourseDetails ==
    /\ enh_phase = "submitting"
    /\ Len(enh_course_tasks) < Len(enh_courses_map)
    /\ enh_session_pool > 0
    /\ enh_session_pool' = enh_session_pool - 1
    /\ enh_course_tasks' = Append(enh_course_tasks, [QueuedTask EXCEPT !.has_session = TRUE])
    /\ UNCHANGED <<enh_phase, enh_tasks, enh_sections, enh_courses_map, enh_courses_data,
                   enh_returned>>
    /\ UNCHANGED <<parser_vars, classifier_vars, reconciler_vars, writer_vars,
                   orchestrator_vars, comprehensive_vars, limiter_vars, detail_vars, session_vars>>

\* a worker of the detail pool runs get_course_details for course c, which
\* catches the exceptions of its request
RunCourseDetails(c) ==
    /\ enh_phase \in {"submitting", "collecting"}
    /\ enh_course_tasks[c].state = "queued"
    /\ enh_course_tasks' = [enh_course_tasks EXCEPT ![c].state = "done"]
    /\ UNCHANGED <<enh_phase, enh_tasks, enh_sections, enh_courses_map, enh_session_pool,
                   enh_courses_data, enh_returned>>
    /\ UNCHANGED <<parser_vars, classifier_vars, reconciler_vars, writer_vars,
                   orchestrator_vars, comprehensive_vars, limiter_vars, detail_vars, session_vars>>

\* every course has been submitted: the calling thread enters the second
\* as_completed loop
AllCoursesSubmitted ==
    /\ enh_phase = "submitting"
    /\ Len(enh_course_tasks) = Len(enh_courses_map)
    /\ enh_phase' = "collecting"
    /\ UNCHANGED <<enh_tasks, enh_sections, enh_courses_map, enh_course_tasks,
                   enh_session_pool, enh_courses_data, enh_returned>>
    /\ UNCHANGED <<parser_vars, classifier_vars, reconciler_vars, writer_vars,
                   orchestrator_vars, comprehensive_vars, limiter_vars, detail_vars, session_vars>>

\* one iteration of the second as_completed loop: the calling thread fetches
\* the details of the sections of course c with the session of the job,
\* stores the course, and gives the session back in the finally clause
CollectCourseDetails(c) ==
    /\ enh_phase = "collecting"
    /\ enh_course_tasks[c].state = "done"
    /\ ~enh_course_tasks[c].collected
    /\ enh_course_tasks' = [enh_course_tasks EXCEPT ![c].collected = TRUE, ![c].has_session = FALSE]
    /\ \E fetched \in [DOMAIN enh_courses_map[c].value -> BOOLEAN] :
          enh_courses_data' = DictSet(enh_courses_data, enh_courses_map[c].key,
              [k \in DOMAIN enh_courses_map[c].value |->
                  [enh_courses_map[c].value[k] EXCEPT !.detailed = fetched[k]]])
    /\ enh_session_pool' = enh_session_pool + 1
    /\ UNCHANGED <<enh_phase, enh_tasks, enh_sections, enh_courses_map, enh_returned>>
    /\ UNCHANGED <<parser_vars, classifier_vars, reconciler_vars, writer_vars,
                   orchestrator_vars, comprehensive_vars, limiter_vars, detail_vars, session_vars>>

\* the statistics are updated and self.courses_data is returned
EnhancedReturnCourses ==
    /\ enh_phase = "collecting"
    /\ AllCollected(enh_course_tasks)
    /\ enh_phase' = "returned"
    /\ enh_returned' = <<enh_courses_data>>
    /\ UNCHANGED <<enh_tasks, enh_sections, enh_courses_map, enh_course_tasks,
                   enh_session_pool, enh_courses_data>>
    /\ UNCHANGED <<parser_vars, classifier_vars, reconciler_vars, writer_vars,
                   orchestrator_vars, comprehensive_vars, limiter_vars, detail_vars, session_vars>>

NextEnhanced ==
    \/ EnhancedGetAllSubjects
    \/ (\E i \in DOMAIN enh_tasks : EnhancedStartSubject(i))
    \/ (\E i \in DOMAIN enh_tasks : EnhancedFinishSubject(i))
    \/ (\E i \in DOMAIN enh_tasks : EnhancedCollectSubject(i))
    \/ EnhancedGroupSections
    \/ SubmitCourseDetails
    \/ (\E c \in DOMAIN enh_course_tasks : RunCourseDetails(c))
    \/ AllCoursesSubmitted
    \/ (\E c \in DOMAIN enh_course_tasks : CollectCourseDetails(c))
    \/ EnhancedReturnCourses

\* every thread that can take a step eventually takes one, and every request
\* is eventually answered: a step stays possible until some step is taken
SpecEnhanced == InitEnhanced /\ [][NextEnhanced]_vars /\ WF_vars(NextEnhanced)

(***************************************************************************)
(* Part I.  OptimizedLionPathScraper.rate_limited_request                   *)
(* (scraper_optimized.py): the sliding-window limiter that every worker     *)
(* thread passes through before it calls the wrapped method.  time.time()   *)
(* is a clock of TicksPerSecond ticks to the second.                        *)
(***************************************************************************)

NumThreads == 2

MaxRate == 2

TicksPerSecond == 2

MaxClock == 5

LimiterThreads == 1..NumThreads

\* [t for t in self.last_request_times if now - t < 1.0]
RecentRequestTimes(times, now) == SelectSeq(times, LAMBDA t : now - t < TicksPerSecond)

\* sleep_time = 1.0 - (now - self.last_request_times[0])
sleep_time(times, now) == TicksPerSecond - (now - times[1])

\* self.last_request_times.append(now): `now` was read on entry, before any sleep.
AppendRequestTime(times, now) == Append(times, now)

InitLimiter ==
    /\ rate_limit_per_second \in 1..MaxRate
    /\ clock = 0
    /\ request_lock = 0
    /\ last_request_times = <<>>
    /\ limiter_threads = [t \in LimiterThreads |-> [pc |-> "idle", now |-> 0, wake |-> 0]]
    /\ issued = <<>>
    /\ OrchestratorIdle
    /\ ComprehensiveIdle
    /\ EnhancedIdle
    /\ DetailParserIdle
    /\ SessionsIdle
    /\ ParserIdle
    /\ ClassifierIdle
    /\ ReconcilerIdle
    /\ WriterIdle

\* time passes; a thread that has left the with block calls the wrapped
\* method before the clock moves on.
Tick ==
    /\ clock < MaxClock
    /\ \A t \in LimiterThreads : limiter_threads[t].pc # "released"
    /\ clock' = clock + 1
    /\ UNCHANGED <<rate_limit_per_second, request_lock, last_request_times, limiter_threads, issued>>
    /\ UNCHANGED <<parser_vars, classifier_vars, reconciler_vars, writer_vars,
                   orchestrator_vars, comprehensive_vars, enhanced_vars, detail_vars, session_vars>>

\* with self.request_lock: ... up to time.sleep(sleep_time), or through the
\* whole block when the thread does not sleep.
EnterLimiter(t) ==
    /\ limiter_threads[t].pc = "idle"
    /\ request_lock = 0
    /\ LET now == clock
           recent == RecentRequestTimes(last_request_times, now)
       IN  IF Len(recent) >= rate_limit_per_second /\ sleep_time(recent, now) > 0
           THEN /\ request_lock' = t
                /\ last_request_times' = recent
                /\ limiter_threads' = [limiter_threads EXCEPT ![t] =
                       [pc |-> "sleeping", now |-> now, wake |-> now + sleep_time(recent, now)]]
           ELSE /\ request_lock' = 0
                /\ last_request_times' = AppendRequestTime(recent, now)
                /\ limiter_threads' = [limiter_threads EXCEPT ![t] =
                       [pc |-> "released", now |-> now, wake |-> 0]]
    /\ UNCHANGED <<rate_limit_per_second, clock, issued>>
    /\ UNCHANGED <<parser_vars, classifier_vars, reconciler_vars, writer_vars,
                   orchestrator_vars, comprehensive_vars, enhanced_vars, detail_vars, session_vars>>

\* time.sleep returns; self.last_request_times.append(now); the lock is released.
WakeLimiter(t) ==
    /\ limiter_threads[t].pc = "sleeping"
    /\ clock >= limiter_threads[t].wake
    /\ last_request_times' = AppendRequestTime(last_request_times, limiter_threads[t].now)
    /\ request_lock' = 0
    /\ limiter_threads' = [limiter_threads EXCEPT ![t].pc = "released"]
    /\ UNCHANGED <<rate_limit_per_second, clock, issued>>
    /\ UNCHANGED <<parser_vars, classifier_vars, reconciler_vars, writer_vars,
                   orchestrator_vars, comprehensive_vars, enhanced_vars, detail_vars, session_vars>>

\* return method(*args, **kwargs)
IssueRequest(t) ==
    /\ limiter_threads[t].pc = "released"
    /\ issued' = Append(issued, clock)
    /\ limiter_threads' = [limiter_threads EXCEPT ![t].pc = "idle"]
    /\ UNCHANGED <<rate_limit_per_second, clock, request_lock, last_request_times>>
    /\ UNCHANGED <<parser_vars, classifier_vars, reconciler_vars, writer_vars,
                   orchestrator_vars, comprehensive_vars, enhanced_vars, detail_vars, session_vars>>

NextLimiter ==
    \/ Tick
    \/ \E t \in LimiterThreads : EnterLimiter(t)
    \/ \E t \in LimiterThreads : WakeLimiter(t)
    \/ \E t \in LimiterThreads : IssueRequest(t)

SpecLimiter == InitLimiter /\ [][NextLimiter]_vars

(***************************************************************************)
(* Part J.  The detail parsers that read a page as text or as elements:     *)
(* OptimizedLionPathScraper.parse_detailed_section_info                     *)
(* (scraper_enhanced_v2.py), which searches soup.get_text() with regular    *)
(* expressions, and HighPerformanceLionPathScraper.parse_detailed_course_info *)
(* (scraper.py), which looks labels up with extract_field_value.  Of the    *)
(* record only the seat counts and class_notes are kept.                    *)
(***************************************************************************)

LetterChars == UpperChars \cup LowerChars

\* the class [:\s]
ColonSpaceChars == SpaceChars \cup {":"}

AllChars(s) == {s[k] : k \in DOMAIN s}

\* int() of a string of digits
RECURSIVE DigitsToInt(_)
DigitsToInt(digits) ==
    IF digits = <<>>
    THEN 0
    ELSE 10 * DigitsToInt(SubSeq(digits, 1, Len(digits) - 1))
         + (CHOOSE d \in 0..9 : ToString(d) = digits[Len(digits)])

\* the label matches at index p, whatever the case (re.IGNORECASE)
LabelAt(text, p, label) ==
    /\ p + Len(label) - 1 <= Len(text)
    /\ Lower(SubSeq(text, p, p + Len(label) - 1)) = Lower(label)

\* (?:label1|label2|...)[:\s]*(\d+) matched at index p: the digits of group 1,
\* <<>> when there is no match at p
NumberAt(text, p, labels) ==
    LET fits(n) ==
            /\ LabelAt(text, p, labels[n])
            /\ LET d == RunEnd(text, p + Len(labels[n]), ColonSpaceChars) + 1
               IN d <= Len(text) /\ text[d] \in DigitChars
    IN  IF \E n \in DOMAIN labels : fits(n)
        THEN LET n == CHOOSE m \in DOMAIN labels : fits(m) /\ \A k \in 1..(m - 1) : ~fits(k)
                 d == RunEnd(text, p + Len(labels[n]), ColonSpaceChars) + 1
             IN SubSeq(text, d, RunEnd(text, d, DigitChars))
        ELSE <<>>

\* re.search of (?:label1|label2|...)[:\s]*(\d+): group 1 of the leftmost
\* match, <<>> when the pattern is not found
SearchNumber(text, labels) ==
    IF \E p \in 1..Len(text) : NumberAt(text, p, labels) # <<>>
    THEN NumberAt(text,
                  CHOOSE p \in 1..Len(text) :
                      /\ NumberAt(text, p, labels) # <<>>
                      /\ \A q \in 1..(p - 1) : NumberAt(text, q, labels) = <<>>,
                  labels)
    ELSE <<>>

Class_Capacity == <<"C", "l", "a", "s", "s", " ", "C", "a", "p", "a", "c", "i", "t", "y">>

enrolled_patterns == <<
    << <<"E", "n", "r", "o", "l", "l", "m", "e", "n", "t", " ", "T", "o", "t", "a", "l">>, <<"T", "o", "t", "a", "l", " ", "E", "n", "r", "o", "l", "l", "e", "d">>, <<"E", "n", "r", "o", "l", "l", "e", "d">> >>,
    << <<"C", "u", "r", "r", "e", "n", "t", " ", "E", "n", "r", "o", "l", "l", "m", "e", "n", "t">> >> >>

\* (?:Available Seats?|Seats Available)
available_labels == << <<"A", "v", "a", "i", "l", "a", "b", "l", "e", " ", "S", "e", "a", "t", "s">>, <<"A", "v", "a", "i", "l", "a", "b", "l", "e", " ", "S", "e", "a", "t">>, <<"S", "e", "a", "t", "s", " ", "A", "v", "a", "i", "l", "a", "b", "l", "e">> >>

\* max(0, section.class_capacity - section.enrollment_total), with the mutant
\* that leaves the difference as it is
CalculatedSeats_Unclamped(class_capacity, enrollment_total) == class_capacity - enrollment_total

CalculatedSeats(class_capacity, enrollment_total) ==
    IF class_capacity - enrollment_total > 0 THEN class_capacity - enrollment_total ELSE 0

\* end of the line that index k is on
LineEnd(text, k) == RunEnd(text, k, AllChars(text) \ {"\n"})

\* (?![A-Z][a-z]+:) fails at index p: letters, at least two, then a colon
LabelAhead(text, p) ==
    LET r == RunEnd(text, p, LetterChars)
    IN r >= p + 1 /\ r + 1 <= Len(text) /\ text[r + 1] = ":"

\* (?:\n(?![A-Z][a-z]+:)[^\n]+)* from the end e of a line: the end of the
\* last line taken
RECURSIVE ContinuationEnd(_, _)
ContinuationEnd(text, e) ==
    IF /\ e + 2 <= Len(text)
       /\ text[e + 1] = "\n"
       /\ text[e + 2] # "\n"
       /\ ~LabelAhead(text, e + 2)
    THEN ContinuationEnd(text, LineEnd(text, e + 2))
    ELSE e

\* [:\s]*([^\n]+ from index q: the index where group 1 starts, 0 when the
\* greedy run leaves no character that is not a line break
NotesStart(text, q) ==
    LET r == RunEnd(text, q, ColonSpaceChars)
        starts == {k \in q..(r + 1) : k <= Len(text) /\ text[k] # "\n"}
    IN IF starts = {} THEN 0 ELSE CHOOSE k \in starts : \A j \in starts : j <= k

\* label + s?[:\s]*([^\n]+ at index p: the index where group 1 starts, 0 when
\* there is no match at p.  `label` is the label without its optional s.
NotesStartAt(text, p, label) ==
    IF ~LabelAt(text, p, label)
    THEN 0
    ELSE LET q == p + Len(label)
             with_s == IF q <= Len(text) /\ LowerChar(text[q]) = "s"
                       THEN NotesStart(text, q + 1)
                       ELSE 0
         IN IF with_s # 0 THEN with_s ELSE NotesStart(text, q)

\* re.search of label + s?[:\s]*([^\n]+ ...): group 1 of the leftmost match;
\* continued tells whether the following lines belong to the group
SearchNotes(text, label, continued) ==
    IF \E p \in 1..Len(text) : NotesStartAt(text, p, label) # 0
    THEN LET p == CHOOSE i \in 1..Len(text) :
                      /\ NotesStartAt(text, i, label) # 0
                      /\ \A j \in 1..(i - 1) : NotesStartAt(text, j, label) = 0
             k == NotesStartAt(text, p, label)
             e == LineEnd(text, k)
         IN [ok |-> TRUE,
             group |-> SubSeq(text, k, IF continued THEN ContinuationEnd(text, e) ELSE e)]
    ELSE [ok |-> FALSE, group |-> <<>>]

\* re.sub(r'\s+', ' ', s)
RECURSIVE CollapseSpaces(_)
CollapseSpaces(s) ==
    IF s = <<>>
    THEN <<>>
    ELSE IF s[1] \in SpaceChars
         THEN <<" ">> \o CollapseSpaces(SubSeq(s, RunEnd(s, 1, SpaceChars) + 1, Len(s)))
         ELSE <<s[1]>> \o CollapseSpaces(Tail(s))

Class_Note == <<"C", "l", "a", "s", "s", " ", "N", "o", "t", "e">>

Section_Note == <<"S", "e", "c", "t", "i", "o", "n", " ", "N", "o", "t", "e">>

\* the loop over notes_patterns: a pattern whose text is empty or holds
\* "No Class Notes" leaves class_notes alone and the next pattern is tried
ExtractClassNotes(text, class_notes) ==
    LET first == SearchNotes(text, Class_Note, TRUE)
        second == SearchNotes(text, Section_Note, FALSE)
        usable(m) == m.ok /\ Strip(m.group) # <<>> /\ ~Contains(Strip(m.group), No_Class_Notes)
    IN  IF usable(first) THEN CollapseSpaces(Strip(first.group))
        ELSE IF usable(second) THEN CollapseSpaces(Strip(second.group))
        ELSE class_notes

\* the fields of SectionInfo (scraper_enhanced_v2.py) that the seat counts
\* and the class notes of a detail page are written to
SectionDetail(class_capacity, enrollment_total, available_seats, class_notes) ==
    [class_capacity |-> class_capacity,
     enrollment_total |-> enrollment_total,
     available_seats |-> available_seats,
     class_notes |-> class_notes]

\* a Section as the search-results parser leaves it
FreshSectionDetail == SectionDetail(0, 0, 0, <<>>)

\* parse_detailed_section_info of scraper_enhanced_v2.py
parse_detailed_section_info_v2(text, base_section) ==
    LET capacity_match == SearchNumber(text, <<Class_Capacity>>)
        class_capacity == IF capacity_match # <<>>
                          THEN DigitsToInt(capacity_match)
                          ELSE base_section.class_capacity
        enrolled1 == SearchNumber(text, enrolled_patterns[1])
        enrolled2 == SearchNumber(text, enrolled_patterns[2])
        enrollment_total == IF enrolled1 # <<>> THEN DigitsToInt(enrolled1)
                            ELSE IF enrolled2 # <<>> THEN DigitsToInt(enrolled2)
                            ELSE base_section.enrollment_total
        available_match == SearchNumber(text, available_labels)
        available_seats == IF available_match # <<>>
                           THEN DigitsToInt(available_match)
                           ELSE IF class_capacity > 0 /\ enrollment_total >= 0
                                THEN CalculatedSeats(class_capacity, enrollment_total)
                                ELSE base_section.available_seats
    IN SectionDetail(class_capacity, enrollment_total, available_seats,
                     ExtractClassNotes(text, base_section.class_notes))

\* an element of the page as extract_field_value sees it: its tag and its string
Element(tag, string) == [tag |-> tag, string |-> string]

\* soup.find(tag, string=re.compile(field_name, re.IGNORECASE)): index of the
\* first such element of the page, 0 when there is none
FindElement(elements, tag, field_name) ==
    LET found == {i \in DOMAIN elements :
                     /\ elements[i].tag = tag
                     /\ Contains(Lower(elements[i].string), Lower(field_name))}
    IN IF found = {} THEN 0 ELSE CHOOSE i \in found : \A j \in found : i <= j

\* the value extract_field_value takes for one label: the text of the next
\* sibling, unless it is empty or equal to the field name.  The elements of
\* the page are siblings and their parent has no sibling after it.
ValueAfter(elements, i, field_name) ==
    IF i # 0 /\ i + 1 <= Len(elements)
       /\ Strip(elements[i + 1].string) # <<>>
       /\ Strip(elements[i + 1].string) # field_name
    THEN Strip(elements[i + 1].string)
    ELSE <<>>

label_tags == <<"span", "td", "label">>

\* extract_field_value of scraper.py, from field name n and label tag t on
RECURSIVE ExtractFrom(_, _, _, _)
ExtractFrom(elements, field_names, n, t) ==
    IF n > Len(field_names)
    THEN <<>>
    ELSE IF t > Len(label_tags)
         THEN ExtractFrom(elements, field_names, n + 1, 1)
         ELSE LET value == ValueAfter(elements,
                                      FindElement(elements, label_tags[t], field_names[n]),
                                      field_names[n])
              IN IF value # <<>>
                 THEN value
                 ELSE ExtractFrom(elements, field_names, n, t + 1)

extract_field_value(elements, field_names) == ExtractFrom(elements, field_names, 1, 1)

notes_field_names == << <<"C", "l", "a", "s", "s", " ", "N", "o", "t", "e", "s">>, <<"N", "o", "t", "e", "s">>, <<"A", "d", "d", "i", "t", "i", "o", "n", "a", "l", " ", "I", "n", "f", "o", "r", "m", "a", "t", "i", "o", "n">> >>

\* notes = self.extract_field_value(...); if notes: detailed_course.class_notes = notes
CourseClassNotes(elements, class_notes) ==
    LET notes == extract_field_value(elements, notes_field_names)
    IN IF notes # <<>> THEN notes ELSE class_notes

\* parse_detailed_course_info of scraper.py, for the class notes
parse_detailed_course_info(elements, base_course) ==
    [class_notes |-> CourseClassNotes(elements, base_course.class_notes)]

line_Capacity_30 == <<"C", "l", "a", "s", "s", " ", "C", "a", "p", "a", "c", "i", "t", "y", ":", " ", "3", "0">>

line_Enrollment_25 == <<"E", "n", "r", "o", "l", "l", "m", "e", "n", "t", " ", "T", "o", "t", "a", "l", ":", " ", "2", "5">>

line_Enrolled_35 == <<"T", "o", "t", "a", "l", " ", "E", "n", "r", "o", "l", "l", "e", "d", ":", " ", "3", "5">>

line_Available_5 == <<"A", "v", "a", "i", "l", "a", "b", "l", "e", " ", "S", "e", "a", "t", "s", ":", " ", "5">>

line_Notes_Laptop == <<"C", "l", "a", "s", "s", " ", "N", "o", "t", "e", "s", ":", " ", "B", "r", "i", "n", "g", " ", "a", " ", "l", "a", "p", "t", "o", "p">>

line_Notes_None == <<"C", "l", "a", "s", "s", " ", "N", "o", "t", "e", "s", ":", " ", "N", "o", " ", "C", "l", "a", "s", "s", " ", "N", "o", "t", "e", "s">>

line_Section_Notes == <<"S", "e", "c", "t", "i", "o", "n", " ", "N", "o", "t", "e", "s", ":", " ", "L", "a", "b", " ", "f", "e", "e">>

line_Instructor == <<"I", "n", "s", "t", "r", "u", "c", "t", "o", "r", ":", " ", "S", "t", "a", "f", "f">>

DetailLines == {
    line_Capacity_30, line_Enrollment_25, line_Enrolled_35, line_Available_5,
    line_Notes_Laptop, line_Notes_None, line_Section_Notes, line_Instructor}

MaxLines == 2

\* "\n".join(lines)
RECURSIVE JoinLines(_)
JoinLines(lines) ==
    IF lines = <<>> THEN <<>>
    ELSE IF Len(lines) = 1 THEN lines[1]
    ELSE lines[1] \o <<"\n">> \o JoinLines(Tail(lines))

\* the texts soup.get_text() gives for the detail pages
DetailTexts == {JoinLines(lines) : lines \in UNION {[1..n -> DetailLines] : n \in 0..MaxLines}}

DetailElements == {
    Element("span", <<"C", "l", "a", "s", "s", " ", "N", "o", "t", "e", "s">>),
    Element("span", No_Class_Notes),
    Element("span", <<"B", "r", "i", "n", "g", " ", "a", " ", "l", "a", "p", "t", "o", "p">>),
    Element("td", <<"N", "o", "t", "e", "s">>),
    Element("span", <<"I", "n", "s", "t", "r", "u", "c", "t", "o", "r">>),
    Element("span", <<>>)}

MaxElements == 2

ElementPages == UNION {[1..n -> DetailElements] : n \in 0..MaxElements}

InitDetailParser ==
    /\ detail_parser = "none"
    /\ detail_page = <<>>
    /\ detail_base = <<>>
    /\ detail_result = <<>>
    /\ OrchestratorIdle
    /\ ComprehensiveIdle
    /\ EnhancedIdle
    /\ LimiterIdle
    /\ SessionsIdle
    /\ ParserIdle
    /\ ClassifierIdle
    /\ ReconcilerIdle
    /\ WriterIdle

\* get_section_details of scraper_enhanced_v2.py hands the text of the page
\* and the section to parse_detailed_section_info
ParseDetailedSectionInfo ==
    /\ detail_parser = "none"
    /\ \E text \in DetailTexts :
          /\ detail_page' = text
          /\ detail_base' = FreshSectionDetail
          /\ detail_result' = parse_detailed_section_info_v2(text, FreshSectionDetail)
    /\ detail_parser' = "enhanced_v2"
    /\ UNCHANGED <<parser_vars, classifier_vars, reconciler_vars, writer_vars,
                   orchestrator_vars, comprehensive_vars, enhanced_vars, limiter_vars, session_vars>>

\* get_course_details of scraper.py hands the page and the course to
\* parse_detailed_course_info
ParseDetailedCourseInfo ==
    /\ detail_parser = "none"
    /\ \E elements \in ElementPages :
          /\ detail_page' = elements
          /\ detail_base' = [class_notes |-> <<>>]
          /\ detail_result' = parse_detailed_course_info(elements, [class_notes |-> <<>>])
    /\ detail_parser' = "scraper"
    /\ UNCHANGED <<parser_vars, classifier_vars, reconciler_vars, writer_vars,
                   orchestrator_vars, comprehensive_vars, enhanced_vars, limiter_vars, session_vars>>

showClassDetails_open == <<"s", "h", "o", "w", "C", "l", "a", "s", "s", "D", "e", "t", "a", "i", "l", "s", "(">>

\* re.match of showClassDetails\((\d+),(\d+)\) at index p of the url
DetailReferenceAt(course_url, p) ==
    LET a == p + Len(showClassDetails_open)
        e1 == RunEnd(course_url, a, DigitChars)
        b == e1 + 2
        e2 == RunEnd(course_url, b, DigitChars)
    IN  IF /\ a <= Len(course_url)
           /\ SubSeq(course_url, p, a - 1) = showClassDetails_open
           /\ e1 >= a
           /\ b <= Len(course_url)
           /\ course_url[e1 + 1] = ","
           /\ e2 >= b
           /\ e2 + 1 <= Len(course_url)
           /\ course_url[e2 + 1] = ")"
        THEN [ok |-> TRUE, strm |-> SubSeq(course_url, a, e1),
              class_nbr |-> SubSeq(course_url, b, e2)]
        ELSE [ok |-> FALSE, strm |-> <<>>, class_nbr |-> <<>>]

\* re.search(r'showClassDetails\((\d+),(\d+)\)', course_url): the groups of
\* the leftmost match
SearchDetailReference(course_url) ==
    IF \E p \in 1..Len(course_url) : DetailReferenceAt(course_url, p).ok
    THEN DetailReferenceAt(course_url,
             CHOOSE p \in 1..Len(course_url) :
                 /\ DetailReferenceAt(course_url, p).ok
                 /\ \A q \in 1..(p - 1) : ~DetailReferenceAt(course_url, q).ok)
    ELSE [ok |-> FALSE, strm |-> <<>>, class_nbr |-> <<>>]

\* mutant: only a raised exception counts as a failed detail request
DetailRequestFailed_RaisedOnly(response) == response.raises

\* the detail request gives no page to parse: rate_limited_request raised
\* (the handler returns the record) or the status is not 200
DetailRequestFailed(response) == response.raises \/ response.status_code # 200

\* get_section_details of scraper_enhanced_v2.py
get_section_details_v2(response, course_url, section) ==
    IF SearchDetailReference(course_url).ok /\ ~DetailRequestFailed(response)
    THEN parse_detailed_section_info_v2(response.text, section)
    ELSE section

\* mutant: the course code of the title on the page is kept
parse_course_level_info_TitleKept(text, base_course_info) ==
    LET title == MatchHyphenatedCourse(text)
    IN IF title.ok
       THEN [base_course_info EXCEPT
                !.course_code = title.subject \o <<" ">> \o title.catalog_number]
       ELSE base_course_info

\* parse_course_level_info of scraper_optimized.py: every pattern of the
\* description step, r'Course Description[:\s]*\n([^]+?)(?:...)', has an
\* unterminated character set, re.search raises re.error for every text, and
\* the handler returns base_course_info
parse_course_level_info(text, base_course_info) == base_course_info

\* get_course_level_details
get_course_level_details(response, course_info, sample_section) ==
    IF SearchDetailReference(sample_section.course_url).ok /\ ~DetailRequestFailed(response)
    THEN parse_course_level_info(response.text, course_info)
    ELSE course_info

\* enhance_course_data of scraper_optimized.py; its get_section_details
\* returns each section as it is
enhance_course_data(response, course_data) ==
    OptimizedCourseData(
        get_course_level_details(response, course_data.course_info, course_data.sections[1]),
        course_data.sections)

\* one iteration of the as_completed loop of extract_course_details_parallel:
\* the OptimizedCourseData the task returned is true and takes the place of
\* the course
StoreEnhanced(data, course_code, enhanced_course_data) ==
    DictSet(data, course_code, enhanced_course_data)

\* what the server does to a detail request: the request raises, or the
\* response has this status and this text
DetailFetches ==
    {[raises |-> TRUE, status_code |-> 0, text |-> <<>>]}
        \cup [raises : {FALSE}, status_code : {200, 500}, text : DetailTexts]

line_Title_MATH_141 == <<"M", "A", "T", "H", " ", "1", "4", "1", " ", "C", "a", "l", "c", "u", "l", "u", "s", " ", "I", "I">>

\* the answers to the detail request of a course: also a page that starts
\* with the title of another course
CourseFetches ==
    DetailFetches \cup [raises : {FALSE}, status_code : {200, 500}, text : {line_Title_MATH_141}]

\* the course_url values of a section: the one the search-results parser
\* writes, none, and one that is no reference
CourseUrls == {DetailReference(strm_2258, class_12345), <<>>, <<"s", "h", "o", "w", "C", "l", "a", "s", "s", "D", "e", "t", "a", "i", "l", "s", "(", ")">>}

\* a Section that has its seat counts already
SeatedSectionDetail == SectionDetail(40, 38, 2, <<>>)

\* the courses_data organize_sections_by_course makes of one page
OrganizedPages ==
    {organize_sections_by_course(parse_sections_optimized(page), <<>>, 1) :
        page \in {page_MATH, page_CMPSC}}

\* get_section_details of scraper_enhanced_v2.py for one section
GetSectionDetails ==
    /\ detail_parser = "none"
    /\ \E response \in DetailFetches, course_url \in CourseUrls,
          section \in {FreshSectionDetail, SeatedSectionDetail} :
          /\ detail_page' = [response |-> response, course_url |-> course_url]
          /\ detail_base' = section
          /\ detail_result' = get_section_details_v2(response, course_url, section)
    /\ detail_parser' = "get_section_details"
    /\ UNCHANGED <<parser_vars, classifier_vars, reconciler_vars, writer_vars,
                   orchestrator_vars, comprehensive_vars, enhanced_vars, limiter_vars, session_vars>>

\* enhance_course_data for the first course of courses_data and the
\* iteration of extract_course_details_parallel that collects it
EnhanceCourseData ==
    /\ detail_parser = "none"
    /\ \E response \in CourseFetches, data \in OrganizedPages :
          /\ detail_page' = [response |-> response,
                             course_url |-> data[1].value.sections[1].course_url]
          /\ detail_base' = data
          /\ detail_result' = StoreEnhanced(data, data[1].key,
                                            enhance_course_data(response, data[1].value))
    /\ detail_parser' = "enhance_course_data"
    /\ UNCHANGED <<parser_vars, classifier_vars, reconciler_vars, writer_vars,
                   orchestrator_vars, comprehensive_vars, enhanced_vars, limiter_vars, session_vars>>

Class_Attribute == <<"C", "l", "a", "s", "s", " ", "A", "t", "t", "r", "i", "b", "u", "t", "e">>

Attribute == <<"A", "t", "t", "r", "i", "b", "u", "t", "e">>

\* re.split(r'[,;]|\n', s)
RECURSIVE SplitAttributes(_)
SplitAttributes(s) ==
    LET e == RunEnd(s, 1, AllChars(s) \ {",", ";", "\n"})
    IN IF e = Len(s)
       THEN <<s>>
       ELSE <<SubSeq(s, 1, e)>> \o SplitAttributes(SubSeq(s, e + 2, Len(s)))

\* [a.strip() for a in attrs if a.strip()]
StrippedParts(attrs) ==
    LET stripped == [i \in DOMAIN attrs |-> Strip(attrs[i])]
    IN SelectSeq(stripped, LAMBDA a : a # <<>>)

\* the loop over attr_patterns of parse_course_level_info
\* (scraper_enhanced_v2.py): a pattern whose text is empty or holds
\* "No Class Attributes" leaves class_attributes alone and the next pattern
\* is tried
ExtractClassAttributes(text, class_attributes) ==
    LET first == SearchNotes(text, Class_Attribute, TRUE)
        second == SearchNotes(text, Attribute, FALSE)
        usable(m) == m.ok /\ Strip(m.group) # <<>>
                        /\ ~Contains(Strip(m.group), No_Class_Attributes)
    IN  IF usable(first) THEN StrippedParts(SplitAttributes(Strip(first.group)))
        ELSE IF usable(second) THEN StrippedParts(SplitAttributes(Strip(second.group)))
        ELSE class_attributes

\* the description step of parse_course_level_info (scraper_enhanced_v2.py):
\* the first of desc_patterns, r'Course Description[:\s]*\n([^]+?)(?:...)',
\* has an unterminated character set and re.search raises re.error for
\* every text
desc_patterns_raise == TRUE

\* parse_course_level_info of scraper_enhanced_v2.py: the steps before the
\* description write to the copy enhanced_info, the description step raises,
\* and the handler returns base_course_info
parse_course_level_info_v2(text, base_course_info) ==
    IF desc_patterns_raise
    THEN base_course_info
    ELSE [base_course_info EXCEPT
             !.class_attributes = ExtractClassAttributes(text, base_course_info.class_attributes)]

line_Attributes_Honors_Twice == <<"C", "l", "a", "s", "s", " ", "A", "t", "t", "r", "i", "b", "u", "t", "e", "s", ":", " ", "H", "o", "n", "o", "r", "s", ",", " ", "H", "o", "n", "o", "r", "s">>

line_Attributes_Two == <<"C", "l", "a", "s", "s", " ", "A", "t", "t", "r", "i", "b", "u", "t", "e", "s", ":", " ", "H", "o", "n", "o", "r", "s", ";", " ", "W", "r", "i", "t", "i", "n", "g">>

line_Attributes_None == <<"C", "l", "a", "s", "s", " ", "A", "t", "t", "r", "i", "b", "u", "t", "e", "s", ":", " ", "N", "o", " ", "C", "l", "a", "s", "s", " ", "A", "t", "t", "r", "i", "b", "u", "t", "e", "s">>

line_Attributes_Short == <<"A", "t", "t", "r", "i", "b", "u", "t", "e", "s", ":", " ", "L", "a", "b", ",">>

AttributeLines == {
    line_Attributes_Honors_Twice, line_Attributes_Two, line_Attributes_None,
    line_Attributes_Short, line_Instructor}

\* the texts soup.get_text() gives for the course detail pages
AttributeTexts == {JoinLines(lines) : lines \in UNION {[1..n -> AttributeLines] : n \in 0..MaxLines}}

\* get_course_level_details of scraper_enhanced_v2.py hands the text of the
\* page and the Course to parse_course_level_info
ParseCourseLevelInfo ==
    /\ detail_parser = "none"
    /\ \E text \in AttributeTexts :
          /\ detail_page' = text
          /\ detail_base' = GroupCourseInfo(code_MATH_140, 1)
          /\ detail_result' = parse_course_level_info_v2(text, GroupCourseInfo(code_MATH_140, 1))
    /\ detail_parser' = "parse_course_level_info"
    /\ UNCHANGED <<parser_vars, classifier_vars, reconciler_vars, writer_vars,
                   orchestrator_vars, comprehensive_vars, enhanced_vars, limiter_vars, session_vars>>

CLASS_NBR_open == <<"C", "L", "A", "S", "S", "_", "N", "B", "R", "\"", ">">>

span_close == <<"<", "/", "s", "p", "a", "n", ">">>

\* (\d+)/(\d+) matched at index k
EnrollmentPairAt(html, k) ==
    LET e == RunEnd(html, k, DigitChars)
    IN e >= k /\ e + 2 <= Len(html) /\ html[e + 1] = "/" /\ html[e + 2] \in DigitChars

\* re.search(f'CLASS_NBR">{class_nbr}</span>.*?(\d+)/(\d+)', html, re.DOTALL):
\* the first pair after the leftmost span of the class number
SearchEnrollment(html, class_nbr) ==
    LET span == CLASS_NBR_open \o class_nbr \o span_close
        p == FindFirst(html, span)
        pairs == {k \in (p + Len(span))..Len(html) : EnrollmentPairAt(html, k)}
    IN  IF p # 0 /\ pairs # {}
        THEN LET k == CHOOSE i \in pairs : \A j \in pairs : i <= j
                 e == RunEnd(html, k, DigitChars)
             IN [ok |-> TRUE, enrolled |-> SubSeq(html, k, e),
                 capacity |-> SubSeq(html, e + 2, RunEnd(html, e + 2, DigitChars))]
        ELSE [ok |-> FALSE, enrolled |-> <<>>, capacity |-> <<>>]

\* section.available_seats = section.class_capacity - section.enrollment_total
AvailableFromPair(class_capacity, enrollment_total) == class_capacity - enrollment_total

\* the seat counts parse_subject_sections writes to the section of one match
\* (the page is shorter than the 1000 characters the search reaches past
\* the anchor)
EnrollmentOfSection(html, class_nbr) ==
    LET enroll_match == SearchEnrollment(html, class_nbr)
    IN IF enroll_match.ok
       THEN [enrollment_total |-> DigitsToInt(enroll_match.enrolled),
             class_capacity |-> DigitsToInt(enroll_match.capacity),
             available_seats |-> AvailableFromPair(DigitsToInt(enroll_match.capacity),
                                                   DigitsToInt(enroll_match.enrolled)),
             waitlist_capacity |-> 0, waitlist_total |-> 0]
       ELSE [enrollment_total |-> 0, class_capacity |-> 0, available_seats |-> 0,
             waitlist_capacity |-> 0, waitlist_total |-> 0]

\* the html of a search-result row: the cells before the anchor and the anchor
RowHtml(cells, m) ==
    cells \o <<"<", "a", " ", "h", "r", "e", "f", "=", "\"", "j", "a", "v", "a", "s", "c", "r", "i", "p", "t", ":">> \o DetailReference(m.strm, m.class_nbr)
          \o <<"\"", ">">> \o m.text \o <<"<", "/", "a", ">">>

\* ComprehensiveLionPathScraper.parse_subject_sections on the html of a page
\* of one row
parse_subject_sections_html(cells, m) ==
    << ParsedSubjectSection(m) @@ EnrollmentOfSection(RowHtml(cells, m), m.class_nbr) >>

cells_35_of_30 == <<"<", "s", "p", "a", "n", " ", "i", "d", "=", "\"", "C", "L", "A", "S", "S", "_", "N", "B", "R", "\"", ">", "1", "2", "3", "4", "5", "<", "/", "s", "p", "a", "n", ">", " ", "3", "5", "/", "3", "0", " ">>

cells_25_of_30 == <<"<", "s", "p", "a", "n", " ", "i", "d", "=", "\"", "C", "L", "A", "S", "S", "_", "N", "B", "R", "\"", ">", "1", "2", "3", "4", "5", "<", "/", "s", "p", "a", "n", ">", "<", "t", "d", ">", "2", "5", "/", "3", "0", "<", "/", "t", "d", ">">>

cells_Other_Class == <<"<", "s", "p", "a", "n", " ", "i", "d", "=", "\"", "C", "L", "A", "S", "S", "_", "N", "B", "R", "\"", ">", "5", "6", "7", "8", "9", "<", "/", "s", "p", "a", "n", ">", " ", "3", "5", "/", "3", "0", " ">>

RowCells == {<<>>, cells_35_of_30, cells_25_of_30, cells_Other_Class}

\* the anchors of the rows
RowAnchors ==
    [strm : {strm_2258}, class_nbr : {class_12345},
     text : {FullAnchor(code_MATH_140, label_001, University_Park), text_Invalid_Format,
             text_123_456, text_dashes}]

\* parse_subject_sections on a page of one row
ParseSubjectSections ==
    /\ detail_parser = "none"
    /\ \E cells \in RowCells, m \in RowAnchors :
          /\ detail_page' = [html |-> RowHtml(cells, m), text |-> m.text]
          /\ detail_base' = <<>>
          /\ detail_result' = parse_subject_sections_html(cells, m)
    /\ detail_parser' = "parse_subject_sections"
    /\ UNCHANGED <<parser_vars, classifier_vars, reconciler_vars, writer_vars,
                   orchestrator_vars, comprehensive_vars, enhanced_vars, limiter_vars, session_vars>>

NextDetailParser ==
    \/ ParseDetailedSectionInfo
    \/ ParseDetailedCourseInfo
    \/ GetSectionDetails
    \/ EnhanceCourseData
    \/ ParseCourseLevelInfo
    \/ ParseSubjectSections

SpecDetailParser == InitDetailParser /\ [][NextDetailParser]_vars

(***************************************************************************)
(* Specification of the session pool with the identities of its sessions:  *)
(* the worker threads of scraper_optimized.py, each of which takes a       *)
(* session for a task and gives it back, and the enrichment loop of        *)
(* scraper_enhanced.py, whose main thread takes a session for each course, *)
(* hands it to the worker and uses it itself when the future is done.      *)
(***************************************************************************)
\* worker threads of a pool
NumSessionThreads == 2

\* most sessions that are in the pool when the pool of threads starts
MaxPoolSize == 2

\* most tasks one worker thread runs
MaxTasksPerThread == 2

\* most courses of courses_map
MaxSessionCourses == 2

SessionThreads == 1..NumSessionThreads

\* mutant: the session handed out stays in the queue
QueueAfterGet_Kept(pool) == pool

\* session_pool.get() and get_nowait(): the queue without its first session
QueueAfterGet(pool) == Tail(pool)

\* get_session of scraper_optimized.py: get_nowait(), and a new
\* requests.Session() when the queue is empty
get_session(pool, created) ==
    IF pool # <<>>
    THEN [session |-> Head(pool), pool |-> QueueAfterGet(pool), created |-> created]
    ELSE [session |-> created + 1, pool |-> pool, created |-> created + 1]

\* return_session: put_nowait(session), put(session) on the unbounded queue
return_session(pool, session) == Append(pool, session)

IdleThread == [pc |-> "idle", session |-> 0, tasks |-> 0]

UnsubmittedTask == [state |-> "unsubmitted", session |-> 0]

\* init_session_pool has made the sessions; the caller may have taken some
\* of them with get_session
InitSessions ==
    /\ sess_scraper \in {"optimized", "enhanced"}
    /\ \E size \in 0..MaxPoolSize :
          /\ sess_pool = [k \in 1..size |-> k]
          /\ sess_created = size
    /\ IF sess_scraper = "optimized"
       THEN /\ sess_threads = [t \in SessionThreads |-> IdleThread]
            /\ sess_tasks = <<>>
            /\ sess_main = <<>>
       ELSE /\ sess_threads = <<>>
            /\ \E n \in 0..MaxSessionCourses : sess_tasks = [c \in 1..n |-> UnsubmittedTask]
            /\ \E workers \in SessionThreads :
                  sess_main = [using |-> 0, max_detail_workers |-> workers]
    /\ OrchestratorIdle
    /\ ComprehensiveIdle
    /\ EnhancedIdle
    /\ LimiterIdle
    /\ DetailParserIdle
    /\ ParserIdle
    /\ ClassifierIdle
    /\ ReconcilerIdle
    /\ WriterIdle

\* scrape_subject_optimized and enhance_course_data: the worker thread takes
\* a session and starts the requests of the task
TakeSession(t) ==
    /\ sess_scraper = "optimized"
    /\ sess_threads[t].pc = "idle"
    /\ sess_threads[t].tasks < MaxTasksPerThread
    /\ LET got == get_session(sess_pool, sess_created)
       IN /\ sess_pool' = got.pool
          /\ sess_created' = got.created
          /\ sess_threads' = [sess_threads EXCEPT
                 ![t] = [pc |-> "requests", session |-> got.session,
                         tasks |-> sess_threads[t].tasks + 1]]
    /\ UNCHANGED <<sess_scraper, sess_tasks, sess_main>>
    /\ UNCHANGED <<parser_vars, classifier_vars, reconciler_vars, writer_vars,
                   orchestrator_vars, comprehensive_vars, enhanced_vars, limiter_vars, detail_vars>>

\* the requests of the task are over and its finally clause gives the
\* session back
GiveSessionBack(t) ==
    /\ sess_scraper = "optimized"
    /\ sess_threads[t].pc = "requests"
    /\ sess_pool' = return_session(sess_pool, sess_threads[t].session)
    /\ sess_threads' = [sess_threads EXCEPT ![t].pc = "idle", ![t].session = 0]
    /\ UNCHANGED <<sess_scraper, sess_created, sess_tasks, sess_main>>
    /\ UNCHANGED <<parser_vars, classifier_vars, reconciler_vars, writer_vars,
                   orchestrator_vars, comprehensive_vars, enhanced_vars, limiter_vars, detail_vars>>

Unsubmitted == {c \in DOMAIN sess_tasks : sess_tasks[c].state = "unsubmitted"}

\* scraper_enhanced.py, the submission loop: the main thread takes a session
\* with the blocking get() and submits get_course_details with it
SubmitCourseWithSession ==
    /\ sess_scraper = "enhanced"
    /\ Unsubmitted # {}
    /\ sess_pool # <<>>
    /\ LET c == CHOOSE i \in Unsubmitted : \A j \in Unsubmitted : i <= j
       IN sess_tasks' = [sess_tasks EXCEPT ![c] = [state |-> "queued", session |-> Head(sess_pool)]]
    /\ sess_pool' = QueueAfterGet(sess_pool)
    /\ UNCHANGED <<sess_scraper, sess_created, sess_threads, sess_main>>
    /\ UNCHANGED <<parser_vars, classifier_vars, reconciler_vars, writer_vars,
                   orchestrator_vars, comprehensive_vars, enhanced_vars, limiter_vars, detail_vars>>

\* a worker of the enrichment pool starts get_course_details of course c
\* with the session handed to it
RunCourseWithSession(c) ==
    /\ sess_scraper = "enhanced"
    /\ sess_tasks[c].state = "queued"
    /\ Cardinality({i \in DOMAIN sess_tasks : sess_tasks[i].state = "running"})
           < sess_main.max_detail_workers
    /\ sess_tasks' = [sess_tasks EXCEPT ![c].state = "running"]
    /\ UNCHANGED <<sess_scraper, sess_pool, sess_created, sess_threads, sess_main>>
    /\ UNCHANGED <<parser_vars, classifier_vars, reconciler_vars, writer_vars,
                   orchestrator_vars, comprehensive_vars, enhanced_vars, limiter_vars, detail_vars>>

\* get_course_details of course c returns or raises: its future is done
FinishCourseWithSession(c) ==
    /\ sess_scraper = "enhanced"
    /\ sess_tasks[c].state = "running"
    /\ sess_tasks' = [sess_tasks EXCEPT ![c].state = "done"]
    /\ UNCHANGED <<sess_scraper, sess_pool, sess_created, sess_threads, sess_main>>
    /\ UNCHANGED <<parser_vars, classifier_vars, reconciler_vars, writer_vars,
                   orchestrator_vars, comprehensive_vars, enhanced_vars, limiter_vars, detail_vars>>

\* as_completed yields the future of course c after the submission loop, and
\* the main thread calls get_section_details with the session of the course
UseSessionInMainThread(c) ==
    /\ sess_scraper = "enhanced"
    /\ Unsubmitted = {}
    /\ sess_main.using = 0
    /\ sess_tasks[c].state = "done"
    /\ sess_tasks' = [sess_tasks EXCEPT ![c].state = "sections"]
    /\ sess_main' = [sess_main EXCEPT !.using = c]
    /\ UNCHANGED <<sess_scraper, sess_pool, sess_created, sess_threads>>
    /\ UNCHANGED <<parser_vars, classifier_vars, reconciler_vars, writer_vars,
                   orchestrator_vars, comprehensive_vars, enhanced_vars, limiter_vars, detail_vars>>

\* the finally clause of the iteration gives the session of the course back
ReturnCourseSession(c) ==
    /\ sess_scraper = "enhanced"
    /\ sess_main.using = c
    /\ sess_pool' = return_session(sess_pool, sess_tasks[c].session)
    /\ sess_tasks' = [sess_tasks EXCEPT ![c] = [state |-> "collected", session |-> 0]]
    /\ sess_main' = [sess_main EXCEPT !.using = 0]
    /\ UNCHANGED <<sess_scraper, sess_created, sess_threads>>
    /\ UNCHANGED <<parser_vars, classifier_vars, reconciler_vars, writer_vars,
                   orchestrator_vars, comprehensive_vars, enhanced_vars, limiter_vars, detail_vars>>

NextSessions ==
    \/ (\E t \in DOMAIN sess_threads : TakeSession(t))
    \/ (\E t \in DOMAIN sess_threads : GiveSessionBack(t))
    \/ SubmitCourseWithSession
    \/ (\E c \in DOMAIN sess_tasks : RunCourseWithSession(c))
    \/ (\E c \in DOMAIN sess_tasks : FinishCourseWithSession(c))
    \/ (\E c \in DOMAIN sess_tasks : UseSessionInMainThread(c))
    \/ (\E c \in DOMAIN sess_tasks : ReturnCourseSession(c))

SpecSessions == InitSessions /\ [][NextSessions]_vars

(***************************************************************************)
(* The course-code grammar, stated on its own: a subject of two or more    *)
(* capital letters with at most one inner hyphen, whitespace, digits, and  *)
(* a suffix of capital letters.                                            *)
(***************************************************************************)
IsSubject(s) ==
    /\ Len(s) >= 2
    /\ \A i \in 1..Len(s) : s[i] \in UpperChars \/ (s[i] = "-" /\ 1 < i /\ i < Len(s))
    /\ Cardinality({i \in 1..Len(s) : s[i] = "-"}) <= 1
    /\ Cardinality({i \in 1..Len(s) : s[i] \in UpperChars}) >= 2

IsCatalog(s) ==
    \E d \in 1..Len(s) :
        /\ \A i \in 1..d : s[i] \in DigitChars
        /\ \A i \in (d + 1)..Len(s) : s[i] \in UpperChars

\* s is SUBJECT, whitespace, CATALOG with the subject ending at i and the
\* catalog number starting at j
IsCourseCodeAt(s, i, j) ==
    /\ 1 <= i /\ i + 1 < j /\ j <= Len(s)
    /\ IsSubject(SubSeq(s, 1, i))
    /\ \A k \in (i + 1)..(j - 1) : s[k] \in SpaceChars
    /\ IsCatalog(SubSeq(s, j, Len(s)))

IsCourseCode(s) == \E i, j \in 1..Len(s) : IsCourseCodeAt(s, i, j)

\* the prefixes of text that are course codes
CourseCodePrefixes(text) == {n \in 1..Len(text) : IsCourseCode(SubSeq(text, 1, n))}

StartsWithCourseCode(text) == CourseCodePrefixes(text) # {}

\* SUBJECT + " " + CATALOG of the course code the text starts with
LeadingCourseCode(text) ==
    LET n == CHOOSE m \in CourseCodePrefixes(text) :
                 \A k \in CourseCodePrefixes(text) : k <= m
        code == SubSeq(text, 1, n)
        ij == CHOOSE p \in (1..n) \X (1..n) : IsCourseCodeAt(code, p[1], p[2])
    IN SubSeq(code, 1, ij[1]) \o <<" ">> \o SubSeq(code, ij[2], n)

\* what the grammar says about each anchor text of the pages: whether it
\* starts with a course code, as it is and with its outer whitespace removed,
\* and the course code it starts with
AnchorGrammar ==
    [text \in AnchorTexts |->
        [starts   |-> StartsWithCourseCode(text),
         stripped |-> StartsWithCourseCode(Strip(text)),
         code     |-> IF StartsWithCourseCode(text) THEN LeadingCourseCode(text) ELSE <<>>]]

\* a section label: 3 digits and capitals, a capital and 2 digits, or 2-3 digits
IsSectionLabel(s) ==
    \/ Len(s) >= 3 /\ (\A i \in 1..3 : s[i] \in DigitChars)
                   /\ (\A i \in 4..Len(s) : s[i] \in UpperChars)
    \/ Len(s) = 3 /\ s[1] \in UpperChars /\ s[2] \in DigitChars /\ s[3] \in DigitChars
    \/ Len(s) \in {2, 3} /\ (\A i \in 1..Len(s) : s[i] \in DigitChars)

\* the branch campuses of the fixed list (every campus name but the home campus)
BranchCampuses == {campus_names[k] : k \in DOMAIN campus_names} \ {UP}

\* the match handled by the last iteration of parse_sections_optimized
LastAnchor == anchors[next_anchor - 1]

\* number of handled anchors whose text satisfies P
Handled(P(_)) == Cardinality({i \in 1..(next_anchor - 1) : P(anchors[i].text)})

(***************************************************************************)
(* Claims about the section parser                                         *)
(***************************************************************************)
\* C1: an anchor "<SUBJECT> <CATALOG> - <SECTION> - <CAMPUS>" whose campus part
\* is a branch campus of the fixed list parses to a Section with that section
\* label and that branch campus.
C1_BranchCampusOfFullAnchor ==
    next_anchor > 1 =>
        LET text == LastAnchor.text
        IN \A i, j \in 1..Len(text) :
              ( /\ i + Len(Dash) < j
                /\ j + Len(Dash) - 1 <= Len(text)
                /\ SubSeq(text, i, i + Len(Dash) - 1) = Dash
                /\ SubSeq(text, j, j + Len(Dash) - 1) = Dash
                /\ IsCourseCode(SubSeq(text, 1, i - 1))
                /\ IsSectionLabel(SubSeq(text, i + Len(Dash), j - 1))
                /\ SubSeq(text, j + Len(Dash), Len(text)) \in BranchCampuses )
              => /\ parsed[1] # None
                 /\ parsed[1].section = SubSeq(text, i + Len(Dash), j - 1)
                 /\ parsed[1].campus = SubSeq(text, j + Len(Dash), Len(text))

\* C2: an anchor text that starts with a course code of the grammar parses to
\* a Section whose course_code is SUBJECT + " " + CATALOG and whose
\* class_number is the class id passed in; "CMPSC 131 - 001 - University Park"
\* with ids (2258, 12345) gives "CMPSC 131", "001", "UP", "12345".
C2_CourseCodeReconstructed ==
    next_anchor > 1 =>
        /\ AnchorGrammar[LastAnchor.text].starts =>
              /\ parsed[1] # None
              /\ parsed[1].has_course_code
              /\ parsed[1].course_code = AnchorGrammar[LastAnchor.text].code
              /\ parsed[1].class_number = LastAnchor.class_nbr
        /\ ( /\ LastAnchor.text = FullAnchor(code_CMPSC_131, label_001, University_Park)
             /\ LastAnchor.strm = strm_2258
             /\ LastAnchor.class_nbr = class_12345 ) =>
              /\ parsed[1] # None
              /\ parsed[1].course_code = code_CMPSC_131
              /\ parsed[1].section = label_001
              /\ parsed[1].campus = UP
              /\ parsed[1].class_number = class_12345

C2_Witness ==
    /\ next_anchor > 1
    /\ LastAnchor.text = FullAnchor(code_CMPSC_131, label_001, University_Park)
    /\ LastAnchor.class_nbr = class_12345
    /\ parsed[1] # None
    /\ parsed[1].course_code = code_CMPSC_131
    /\ Len(sections) = next_anchor - 1

\* C3 as stated: an anchor text that does not start with a course code of the
\* grammar parses to None and adds nothing to the section list.
C3_NoCourseCodeNoSection ==
    LET Starts(text) == AnchorGrammar[text].starts
    IN /\ next_anchor > 1 /\ ~Starts(LastAnchor.text) => parsed[1] = None
       /\ Len(sections) <= Handled(Starts)

\* C3 amended: an anchor text that, with its leading and trailing whitespace
\* removed, does not start with a course code of the grammar parses to None
\* and adds nothing to the section list.
C3_NoCourseCodeAfterStripNoSection ==
    LET StartsStripped(text) == AnchorGrammar[text].stripped
    IN /\ next_anchor > 1 /\ ~StartsStripped(LastAnchor.text) => parsed[1] = None
       /\ Len(sections) <= Handled(StartsStripped)

C3_Witness ==
    /\ next_anchor > 2
    /\ anchors[1].text = text_Invalid_Format
    /\ LastAnchor.text = text_123_456
    /\ parsed[1] = None
    /\ sections = <<>>

(***************************************************************************)
(* Claims about the campus classifier                                      *)
(***************************************************************************)
world_campus_lower == <<"w", "o", "r", "l", "d", " ", "c", "a", "m", "p", "u", "s">>

NamesWorldCampus(section) == Contains(Lower(section.campus), world_campus_lower)

\* C4: both classifiers return a boolean for every Section, and return false
\* for every Section whose campus text contains "World Campus" in any case,
\* whatever the section label is.
C4_WorldCampusNeverHome ==
    /\ up_optimized # <<>> =>
          /\ up_optimized[1] \in BOOLEAN
          /\ NamesWorldCampus(section_arg) => up_optimized[1] = FALSE
    /\ up_scraper # <<>> =>
          /\ up_scraper[1] \in BOOLEAN
          /\ NamesWorldCampus(section_arg) => up_scraper[1] = FALSE

C4_Witness ==
    /\ section_arg # None
    /\ section_arg.campus = <<"P", "e", "n", "n", " ", "S", "t", "a", "t", "e", " ", "W", "o", "r", "l", "d", " ", "C", "a", "m", "p", "u", "s">>
    /\ section_arg.section = label_002
    /\ up_optimized = <<FALSE>>
    /\ up_scraper = <<FALSE>>

FourStepRule(section) ==
    LET campus == Upper(section.campus)
        label  == section.section
    IN IF \E keyword \in BranchCampuses : Contains(campus, Upper(keyword))
       THEN FALSE
       ELSE IF campus \in {UP, Upper(University_Park), <<>>}
       THEN TRUE
       ELSE IF Len(label) > 0 /\ label[Len(label)] \in {"Y", "W"}
       THEN FALSE
       ELSE TRUE

NamesBranchCampus(section) ==
    \E keyword \in BranchCampuses : Contains(Lower(section.campus), Lower(keyword))

HasOffCampusSuffix(section) ==
    /\ Len(section.section) > 0
    /\ section.section[Len(section.section)] \in {"Y", "W"}

CarriedCode(section) == IF section.has_course_code THEN section.course_code ELSE <<>>

CarriedCodes(input) == {CarriedCode(input[i]) : i \in DOMAIN input} \ {<<>>}

\* the input sections that carry the code, in input order, as they are stored:
\* without the attribute that was attached for grouping
SectionsCarrying(input, code) ==
    LET Carries(section) == CarriedCode(section) = code
        chosen == SelectSeq(input, Carries)
    IN [i \in DOMAIN chosen |->
           [chosen[i] EXCEPT !.has_course_code = FALSE, !.course_code = <<>>]]

\* data has exactly one entry per course code carried by the input, holding
\* the input sections of that code in input order
IsPartition(input, data) ==
    /\ DictKeys(data) = CarriedCodes(input)
    /\ Len(data) = Cardinality(CarriedCodes(input))
    /\ \A i \in DOMAIN data :
          /\ data[i].value.course_info.course_code = data[i].key
          /\ data[i].value.sections = SectionsCarrying(input, data[i].key)

\* scraper s has just run organize_sections_by_course
OrganizeStep(s) == organize_runs'[s] = organize_runs[s] + 1

descriptive_fields ==
    {"course_description", "enrollment_requirements", "class_attributes", "units",
     "grading", "career", "subject", "catalog_number"}

\* the course codes of a dict with the descriptive values of their Courses
CourseRecords(data) ==
    {[course_code |-> data[i].key,
      fields |-> [f \in descriptive_fields |-> data[i].value.course_info[f]]] :
        i \in DOMAIN data}

\* C9: a reconciler run on a section list that was reconciled before gives
\* Course records with the same course codes and the same descriptive values
\* as the first run did: every dict organize_courses returned for the list,
\* and the courses_data of every scraper that organized the list.
C9_SecondRunSameCourses ==
    /\ \A r \in DOMAIN comp_results :
          CourseRecords(comp_results[r]) = CourseRecords(comp_results[1])
    /\ \A a, b \in Scrapers :
          (organize_runs[a] > 0 /\ organize_runs[b] > 0) =>
              CourseRecords(courses_data[a]) = CourseRecords(courses_data[b])

(***************************************************************************)
(* Claims about the aggregates and the result writer                       *)
(***************************************************************************)
\* the sum of f[i] over the index set I
RECURSIVE TotalOver(_, _)
TotalOver(f, I) ==
    IF I = {}
    THEN 0
    ELSE LET i == CHOOSE j \in I : TRUE
         IN f[i] + TotalOver(f, I \ {i})

\* the OptimizedCourseData the aggregates were read from
StatsCourse == DictGet(courses_data[1], stats[1].course_code)

\* C8: the aggregates read from an OptimizedCourseData are the sums of its
\* sections' class_capacity, enrollment_total and available_seats, the number
\* of its sections and the set of their non-empty campus values; capacities
\* [50,50,100], enrollments [45,48,75], available seats [5,2,25] and campuses
\* UP, UP, World Campus give 200, 168, 32 and {"UP", "World Campus"}.
C8_AggregatesAreFolds ==
    stats # <<>> =>
        LET secs == StatsCourse.sections
            Field(name) == [i \in DOMAIN secs |-> secs[i][name]]
        IN /\ stats[1].total_capacity = TotalOver(Field("class_capacity"), DOMAIN secs)
           /\ stats[1].total_enrollment = TotalOver(Field("enrollment_total"), DOMAIN secs)
           /\ stats[1].available_seats = TotalOver(Field("available_seats"), DOMAIN secs)
           /\ stats[1].section_count = Cardinality(DOMAIN secs)
           /\ stats[1].campuses = {secs[i].campus : i \in DOMAIN secs} \ {<<>>}
           /\ ( /\ Field("class_capacity") = <<50, 50, 100>>
                /\ Field("enrollment_total") = <<45, 48, 75>>
                /\ Field("available_seats") = <<5, 2, 25>>
                /\ Field("campus") = <<UP, UP, World_Campus>> ) =>
                  /\ stats[1].total_capacity = 200
                  /\ stats[1].total_enrollment = 168
                  /\ stats[1].available_seats = 32
                  /\ stats[1].campuses = {UP, World_Campus}

C8_Witness ==
    /\ stats # <<>>
    /\ StatsCourse.sections =
           <<DelCourseCode(section_MATH_001), DelCourseCode(section_MATH_002),
             DelCourseCode(section_MATH_003)>>
    /\ stats[1].total_capacity = 200
    /\ stats[1].total_enrollment = 168
    /\ stats[1].available_seats = 32
    /\ stats[1].section_count = 3
    /\ stats[1].campuses = {UP, World_Campus}

\* save_optimized_results has just written the file
SaveStep == jsonl_file' # jsonl_file

\* the record has the keys course, sections and stats, one element per
\* Section of the course, and stats that count and sum those elements
RecordMatches(record, course_data) ==
    LET Field(name) == [j \in DOMAIN record.sections |-> record.sections[j][name]]
    IN /\ DOMAIN record = {"course", "sections", "stats"}
       /\ record.course.course_code = course_data.course_info.course_code
       /\ Len(record.sections) = Len(course_data.sections)
       /\ \A j \in DOMAIN record.sections :
             /\ record.sections[j].section = course_data.sections[j].section
             /\ record.sections[j].class_number = course_data.sections[j].class_number
       /\ record.stats.section_count = Len(record.sections)
       /\ record.stats.total_capacity =
              TotalOver(Field("class_capacity"), DOMAIN record.sections)
       /\ record.stats.total_enrollment =
              TotalOver(Field("enrollment_total"), DOMAIN record.sections)
       /\ record.stats.available_seats =
              TotalOver(Field("available_seats"), DOMAIN record.sections)

\* C10: save_optimized_results with format jsonl writes exactly one record per
\* entry of courses_data, in the order of the entries; each record has the
\* keys course, sections and stats, one sections element per Section of the
\* course, stats.section_count equal to the length of that list and
\* stats.total_capacity, total_enrollment and available_seats equal to the
\* sums over those sections.
C10_OneRecordPerCourse ==
    [][SaveStep =>
          /\ Len(jsonl_file'[1]) = Len(courses_data[1])
          /\ \A i \in DOMAIN courses_data[1] :
                RecordMatches(jsonl_file'[1][i], courses_data[1][i].value)]_vars

C10_Witness ==
    /\ jsonl_file # <<>>
    /\ Len(jsonl_file[1]) = 2
    /\ Len(courses_data[1]) = 2
    /\ jsonl_file[1][1].course.course_code = code_MATH_140
    /\ jsonl_file[1][1].stats.section_count = 2
    /\ Len(jsonl_file[1][1].sections) = 2
    /\ jsonl_file[1][1].stats.total_capacity = 150
    /\ jsonl_file[1][1].stats.total_enrollment = 120
    /\ jsonl_file[1][1].stats.available_seats = 30
    /\ jsonl_file[1][1].stats.campuses = <<World_Campus, UP>>
    /\ jsonl_file[1][2].course.course_code = code_CMPSC_131
    /\ jsonl_file[1][2].stats.section_count = 1

(***************************************************************************)
(* The subject pool of scrape_subjects_parallel.                           *)
(***************************************************************************)
Occurrences(list, x) == Cardinality({k \in DOMAIN list : list[k] = x})

\* the campus filter as scrape_all_courses is asked to apply it
PassesCampusFilter(section) ==
    Upper(campus_filter) = UP => is_university_park_section(section)

\* the sections parse_sections_optimized finds on each page
SectionsOfPage == [page \in SubjectPages \cup SharedCoursePages \cup BranchCampusPages |-> parse_sections_optimized(page)]

\* the sections on the page of subject i that pass the campus filter
KeptSections(i) ==
    SelectSeq(SectionsOfPage[subject_tasks[i].response[1].matches], PassesCampusFilter)

Succeeded(i) == subject_tasks[i].state = "done" /\ ~subject_tasks[i].raised

PoolFinished == run_phase = "subjects" /\ AllCollected(subject_tasks)

PageSections ==
    UNION {{SectionsOfPage[p][k] : k \in DOMAIN SectionsOfPage[p]} : p \in SubjectPages}

\* C11: while the subject pool runs, and when scrape_subjects_parallel
\* returns, the list all_sections holds, for every section, as many copies as
\* the pages of the subjects collected so far whose task succeeded hold of it
\* after the campus filter, whatever the other tasks did; when the pool has
\* finished every task has run
C11_FailureLosesNoSibling ==
    run_phase = "subjects" =>
        /\ \A x \in PageSections \cup {raw_sections[k] : k \in DOMAIN raw_sections} :
              Occurrences(raw_sections, x) =
                  sum([i \in DOMAIN subject_tasks |->
                          IF subject_tasks[i].collected /\ Succeeded(i)
                          THEN Occurrences(KeptSections(i), x) ELSE 0])
        /\ PoolFinished => \A i \in DOMAIN subject_tasks : subject_tasks[i].state = "done"

\* the pool has finished, one task failed and a sibling's sections are in
\* the returned list
C11_Witness ==
    /\ PoolFinished
    /\ \E i, j \in DOMAIN subject_tasks :
          /\ subject_tasks[i].raised
          /\ Succeeded(j)
          /\ KeptSections(j) # <<>>
    /\ raw_sections # <<>>

(***************************************************************************)
(* Failed subjects of the subject pools.                                   *)
(***************************************************************************)
\* the fetch of a finished task failed: a request raised (timeout, other
\* exception) or the deciding response had a status other than 200
FetchFailed(task) == task.response[1].raises \/ task.response[1].status_code # 200

SubjectPoolFinished == comp_phase = "subjects" /\ AllCollected(comp_tasks)

\* C12: once the subject pool of ComprehensiveLionPathScraper.scrape_all_courses
\* has finished, the subjects whose fetch failed are exactly those listed in
\* stats['failed_subjects'], each once, stats['processed_subjects'] counts
\* the other subjects, and a failed subject has no section
C12_FailedSubjectsRecorded ==
    SubjectPoolFinished =>
        LET failed == {i \in DOMAIN comp_tasks : FetchFailed(comp_tasks[i])}
        IN /\ \A i \in DOMAIN comp_tasks :
                 Occurrences(comp_stats.failed_subjects, i) = IF i \in failed THEN 1 ELSE 0
           /\ comp_stats.processed_subjects = Cardinality(DOMAIN comp_tasks \ failed)
           /\ \A i \in failed : comp_tasks[i].sections = <<>>

(***************************************************************************)
(* Termination of a run.                                                   *)
(***************************************************************************)
\* C13: with at least one worker in each pool, every run of
\* EnhancedLionPathScraper.scrape_all_courses in which every request is
\* answered and every thread that can run does run eventually returns
C13_RunTerminates ==
    (max_workers >= 1 /\ max_detail_workers >= 1) => <>(enh_phase = "returned")

(***************************************************************************)
(* The result of a run that ends in the top-level exception handler.       *)
(***************************************************************************)
\* C14: when OptimizedLionPathScraper.scrape_all_courses has returned, on
\* the normal path or through its top-level exception handler, with courses
\* accumulated in courses_data, the value returned is that set of courses
C14_PartialResultReturned ==
    (run_phase = "returned" /\ courses_data[1] # <<>>) => returned = <<courses_data[1]>>

\* The wrapped requests issued in the second that starts at tick `from`.
IssuedInWindow(from) ==
    Cardinality({k \in DOMAIN issued : issued[k] >= from /\ issued[k] < from + TicksPerSecond})

\* C15: whatever the interleaving of the threads that call
\* rate_limited_request, at most rate_limit_per_second wrapped requests are
\* issued within any window of one second.
C15_RateCapped ==
    rate_limit_per_second >= 1 =>
        \A from \in 0..MaxClock : IssuedInWindow(from) <= rate_limit_per_second

\* The tasks of a pool that hold a session.
HoldingSession(tasks) == {i \in DOMAIN tasks : tasks[i].has_session}

\* A task that runs holds the session get_session gave it; a task that has
\* ended holds none.
TaskSessions(tasks) ==
    \A i \in DOMAIN tasks :
        /\ tasks[i].state = "running" => tasks[i].has_session
        /\ tasks[i].state \in {"queued", "done"} => ~tasks[i].has_session

\* C16: a subject task and an enrichment task hold a session from start to
\* end, also when get_session found the pool empty, and hold none once they
\* have ended, whether they returned or raised; every session that exists
\* (those of the initial pool and those get_session made on an empty pool)
\* is in the pool, with a running task or with the caller, so that once all
\* tasks have finished none is checked out by a task.
C16_SessionsReturned ==
    run_phase # "idle" =>
        /\ TaskSessions(subject_tasks)
        /\ TaskSessions(detail_tasks)
        /\ session_pool + client_sessions
               + Cardinality(HoldingSession(subject_tasks))
               + Cardinality(HoldingSession(detail_tasks))
             = max_workers + max_detail_workers + sessions_created

\* a run has returned in which a subject task raised and another did not, a
\* session was taken from an empty pool, and none is with a task any more
C16_Witness ==
    /\ run_phase = "returned"
    /\ sessions_created > 0
    /\ run_stats.failed_subjects # <<>>
    /\ run_stats.processed_subjects > 0
    /\ session_pool + client_sessions = max_workers + max_detail_workers + sessions_created

\* The page names no available seats: the word "seat" is not in its text.
NoSeatsOnPage(text) == ~Contains(Lower(text), <<"s", "e", "a", "t">>)

\* C17: after parse_detailed_section_info of scraper_enhanced_v2.py on a page
\* that gives no available-seats value, a Section whose class_capacity and
\* enrollment_total are both non-zero has
\* available_seats = max(0, class_capacity - enrollment_total).
C17_AvailableSeatsCalculated ==
    (/\ detail_parser = "enhanced_v2"
     /\ NoSeatsOnPage(detail_page)
     /\ detail_result.class_capacity # 0
     /\ detail_result.enrollment_total # 0)
    => /\ detail_result.available_seats >= 0
       /\ detail_result.available_seats >= detail_result.class_capacity - detail_result.enrollment_total
       /\ detail_result.available_seats \in
              {0, detail_result.class_capacity - detail_result.enrollment_total}

\* a page with more students enrolled than the class holds, and no seats line
C17_Witness ==
    /\ detail_parser = "enhanced_v2"
    /\ NoSeatsOnPage(detail_page)
    /\ detail_result.class_capacity = 30
    /\ detail_result.enrollment_total = 35
    /\ detail_result.available_seats = 0

\* The text of a page has no "Class Notes" label.
TextWithoutNotesLabel(text) ==
    ~Contains(Lower(text), <<"c", "l", "a", "s", "s", " ", "n", "o", "t", "e", "s">>)

\* The class-notes value of the text is the placeholder.
TextWithPlaceholder(text) == Contains(text, line_Notes_None)

\* No element of the page is the label "Class Notes".
ElementsWithoutNotesLabel(elements) ==
    \A i \in DOMAIN elements : Lower(elements[i].string) # Lower(notes_field_names[1])

\* The element after the label "Class Notes" is the placeholder.
ElementsWithPlaceholder(elements) ==
    \E i \in DOMAIN elements :
        /\ elements[i].string = notes_field_names[1]
        /\ i + 1 <= Len(elements)
        /\ elements[i + 1].string = No_Class_Notes

\* C18: after a detail parser (parse_detailed_section_info of
\* scraper_enhanced_v2.py, parse_detailed_course_info of scraper.py) has read a
\* page that has no "Class Notes" label, or whose class-notes value is the
\* placeholder "No Class Notes", class_notes of the record is what it was
\* before (the empty string for a fresh record).
C18_ClassNotesTolerant ==
    /\ (/\ detail_parser = "enhanced_v2"
        /\ TextWithoutNotesLabel(detail_page) \/ TextWithPlaceholder(detail_page))
       => detail_result.class_notes = detail_base.class_notes
    /\ (/\ detail_parser = "scraper"
        /\ ElementsWithoutNotesLabel(detail_page) \/ ElementsWithPlaceholder(detail_page))
       => detail_result.class_notes = detail_base.class_notes

\* Every section of the returned courses is classified as home campus.
OnlyHomeCampus(courses) ==
    \A c \in DOMAIN courses :
        \A k \in DOMAIN courses[c].value.sections :
            is_university_park_section(courses[c].value.sections[k])

\* C19: when scrape_all_courses of OptimizedLionPathScraper or of
\* ComprehensiveLionPathScraper has run with campus filter "UP", every
\* Section of the courses it returned is one the campus classifier
\* classifies as home campus.
C19_ReturnedSectionsAreHomeCampus ==
    /\ (run_phase = "returned" /\ campus_filter = UP)
       => \A r \in DOMAIN returned : OnlyHomeCampus(returned[r])
    /\ (comp_phase = "returned" /\ campus_filter = UP)
       => \A r \in DOMAIN comp_returned : OnlyHomeCampus(comp_returned[r])

\* the course-level fields, in the order of the markers of marker_names
course_level_fields ==
    <<"course_description", "enrollment_requirements", "class_attributes", "units",
      "grading", "career">>

\* The sections of the list whose detail page yielded course-level field n
\* for the course: parse_detailed_section_info left the marker in class_notes.
YieldingSections(section_list, course_code, n) ==
    {k \in DOMAIN section_list :
        /\ section_list[k].course_code = course_code
        /\ SearchMarker(section_list[k].class_notes, marker_names[n]).ok}

\* Every course-level field some section of the course yielded has, in the
\* Course record, the value of the first section that yielded it.
FirstObservedWins(section_list, courses) ==
    \A c \in DOMAIN courses :
        \A n \in DOMAIN course_level_fields :
            LET yielding == YieldingSections(section_list, courses[c].key, n)
            IN yielding # {} =>
                  LET first == CHOOSE k \in yielding : \A j \in yielding : k <= j
                      value == MarkerValue(section_list[first].class_notes, n)
                  IN courses[c].value.course_info[course_level_fields[n]]
                         = IF n = 3 THEN <<value>> ELSE value

\* C20: when organize_courses makes the Course records of a run, every
\* course-level field (description, enrollment requirements, attributes,
\* units, grading, career) of a Course equals the value of the first section
\* of the course, in input order, whose detail page yielded the field; a
\* later section neither replaces it nor is merged into it.
C20_FirstObservedWins ==
    [][(comp_phase = "subjects" /\ comp_phase' = "returned")
          => \A r \in DOMAIN comp_returned' : FirstObservedWins(comp_sections, comp_returned'[r])]_vars

(***************************************************************************)
(* Duplicate anchors of one page.                                          *)
(***************************************************************************)
\* C21: the list that parse_sections_optimized builds for a page holds at
\* most one Section per class number, also when several showClassDetails
\* anchors of the page carry the same class number.
C21_OneSectionPerClassNumber ==
    \A i, j \in DOMAIN sections :
        i # j => sections[i].class_number # sections[j].class_number

\* all_sections when the futures of the tasks are collected in the order of
\* their submission
RECURSIVE InSubmissionOrder(_, _)
InSubmissionOrder(tasks, filter) ==
    IF tasks = <<>>
    THEN <<>>
    ELSE ExtendAllSections(InSubmissionOrder(SubSeq(tasks, 1, Len(tasks) - 1), filter),
                           filter, tasks[Len(tasks)].sections)

SectionSet(course_data) == {course_data.sections[k] : k \in DOMAIN course_data.sections}

\* the section whose course_url enhance_course_data hands to
\* get_course_level_details
Representative(course_data) == course_data.sections[1]

\* two course dictionaries with the same course codes, and under each code
\* the same set of sections and the same Course fields
SameCourses(data, other) ==
    /\ DictKeys(data) = DictKeys(other)
    /\ \A course_code \in DictKeys(data) :
          /\ SectionSet(DictGet(data, course_code)) = SectionSet(DictGet(other, course_code))
          /\ DictGet(data, course_code).course_info = DictGet(other, course_code).course_info

SameRepresentatives(data, other) ==
    \A course_code \in DictKeys(data) \cap DictKeys(other) :
        Representative(DictGet(data, course_code)) = Representative(DictGet(other, course_code))

\* C22: whatever the order in which the subject tasks complete, the
\* courses_data that scrape_all_courses organizes has the course codes, the
\* set of sections under each code, the Course fields and the representative
\* section of each course that it has when the tasks complete in the order
\* of their submission.
C22_CompletionOrderIrrelevant ==
    [][(run_phase = "subjects" /\ run_phase' = "organized")
          => LET in_order == organize_sections_by_course(
                                 InSubmissionOrder(subject_tasks, campus_filter),
                                 courses_data[1], 1)
             IN /\ SameCourses(courses_data'[1], in_order)
                /\ SameRepresentatives(courses_data'[1], in_order)]_vars

\* the part of C22 that does hold: codes, section sets and Course fields
C22_SameCoursesInEveryOrder ==
    [][(run_phase = "subjects" /\ run_phase' = "organized")
          => SameCourses(courses_data'[1],
                         organize_sections_by_course(
                             InSubmissionOrder(subject_tasks, campus_filter),
                             courses_data[1], 1))]_vars

\* C23: when the detail request raises or answers with a status other than
\* 200, get_section_details gives back the section it was handed with every
\* field as it was, and the course that enhance_course_data enriched through
\* get_course_level_details stays in courses_data with its Course fields and
\* its sections as they were.
C23_FailedFetchLeavesRecord ==
    (/\ detail_parser \in {"get_section_details", "enhance_course_data"}
     /\ detail_page.response.raises \/ detail_page.response.status_code # 200)
    => detail_result = detail_base

\* a server error whose body has seat counts left the seated section as it was
C23_Witness ==
    /\ detail_parser = "get_section_details"
    /\ detail_page.response.status_code = 500
    /\ SearchDetailReference(detail_page.course_url).ok
    /\ parse_detailed_section_info_v2(detail_page.response.text, detail_base) # detail_base
    /\ detail_result = SeatedSectionDetail

\* the pieces of the attribute text of the page, as a set
AttributesOnPage(text) ==
    LET attrs == ExtractClassAttributes(text, <<>>)
    IN {attrs[i] : i \in DOMAIN attrs}

C24_NoAttributeTwice ==
    detail_parser = "parse_course_level_info"
    => LET attrs == detail_result.class_attributes
       IN /\ \A i, j \in DOMAIN attrs : i # j => attrs[i] # attrs[j]
          /\ \A i \in DOMAIN attrs : attrs[i] # <<>>

\* C25: after any parse the capacity fields of every Section are not
\* negative: class_capacity, enrollment_total, available_seats,
\* waitlist_capacity and waitlist_total of the Sections of
\* parse_subject_sections, also for a row whose pair shows more enrolled
\* students than capacity, and the seat counts of the Section that
\* parse_detailed_section_info returns.
C25_SeatCountsNonNegative ==
    /\ detail_parser = "parse_subject_sections"
       => \A k \in DOMAIN detail_result :
             /\ detail_result[k].class_capacity >= 0
             /\ detail_result[k].enrollment_total >= 0
             /\ detail_result[k].available_seats >= 0
             /\ detail_result[k].waitlist_capacity >= 0
             /\ detail_result[k].waitlist_total >= 0
    /\ detail_parser \in {"enhanced_v2", "get_section_details"}
       => /\ detail_result.class_capacity >= 0
          /\ detail_result.enrollment_total >= 0
          /\ detail_result.available_seats >= 0

\* the course codes under which the returned courses are keyed
ReturnedCourseCodes == UNION {DictKeys(comp_returned[r]) : r \in DOMAIN comp_returned}

\* C26: every Section that parse_subject_sections returns to a subject task
\* of the comprehensive scraper has a course_code of the course-code
\* grammar, so an anchor whose text does not match yields no Section, and
\* organize_courses makes no Course under a key that is not a course code.
C26_MalformedEntriesDiscarded ==
    /\ \A i \in DOMAIN comp_tasks :
          \A k \in DOMAIN comp_tasks[i].sections :
              IsCourseCode(comp_tasks[i].sections[k].course_code)
    /\ \A course_code \in ReturnedCourseCodes : IsCourseCode(course_code)

\* the second part of C26 alone: the keys of the returned courses
C26_CoursesKeyedByCourseCode ==
    \A course_code \in ReturnedCourseCodes : IsCourseCode(course_code)

\* C27: the reference of a Section round-trips: when
\* parse_section_text_optimized has built a Section from the term id and the
\* class number of a match, the search of get_course_level_details in its
\* course_url finds a reference and yields that term id and that class
\* number, and the class number is the class_number of the Section.
C27_ReferenceRoundTrips ==
    (next_anchor > 1 /\ parsed # <<>> /\ parsed[1] # None)
    => LET m == anchors[next_anchor - 1]
           reference == SearchDetailReference(parsed[1].course_url)
       IN /\ reference.ok
          /\ reference.strm = m.strm
          /\ reference.class_nbr = m.class_nbr
          /\ reference.class_nbr = parsed[1].class_number

\* a Section of term 2258 and class 12345 whose reference gives both back
C27_Witness ==
    /\ next_anchor > 1
    /\ parsed # <<>>
    /\ parsed[1] # None
    /\ anchors[next_anchor - 1].strm = strm_2258
    /\ anchors[next_anchor - 1].class_nbr = class_12345
    /\ SearchDetailReference(parsed[1].course_url) =
           [ok |-> TRUE, strm |-> strm_2258, class_nbr |-> class_12345]

KeyedByOwnCode(data) ==
    \A c \in DOMAIN data : data[c].value.course_info.course_code = data[c].key

\* C28: the courses_data that organize_sections_by_course made and the
\* courses_data after the enrichment of a course have every Course under
\* its own course code, whatever the text of the detail page.
C28_CoursesKeyedByOwnCode ==
    detail_parser = "enhance_course_data"
    => KeyedByOwnCode(detail_base) /\ KeyedByOwnCode(detail_result)

\* the detail page of a course held the title of another course
C28_Witness ==
    /\ detail_parser = "enhance_course_data"
    /\ detail_page.response.status_code = 200
    /\ detail_page.response.text = line_Title_MATH_141
    /\ SearchDetailReference(detail_page.course_url).ok
    /\ detail_result # <<>>
    /\ detail_result[1].key # <<"M", "A", "T", "H", " ", "1", "4", "1">>

\* the campus part of an anchor text: what follows its last " - "
CampusPart(text) ==
    LET dashes == {p \in 1..(Len(text) - 2) : SubSeq(text, p, p + 2) = <<" ", "-", " ">>}
    IN IF dashes = {}
       THEN <<>>
       ELSE SubSeq(text, (CHOOSE p \in dashes : \A q \in dashes : q <= p) + 3, Len(text))

AnchorNamesBranchCampus(text) ==
    \E keyword \in BranchCampuses : Contains(Lower(CampusPart(text)), Lower(keyword))

\* the section of class number class_nbr is in the list
ListsClass(section_list, class_nbr) ==
    \E k \in DOMAIN section_list : section_list[k].class_number = class_nbr

\* C29: under campus filter "UP" the list of scrape_subjects_parallel holds
\* no section of a collected page whose anchor text names a branch campus in
\* its campus part, whatever the suffix of its section number.
C29_NoBranchCampusLeaks ==
    (run_phase = "subjects" /\ Upper(campus_filter) = UP)
    => \A i \in DOMAIN subject_tasks :
          (subject_tasks[i].collected /\ ~subject_tasks[i].raised)
          => \A k \in DOMAIN subject_tasks[i].response[1].matches :
                LET m == subject_tasks[i].response[1].matches[k]
                IN AnchorNamesBranchCampus(m.text) => ~ListsClass(raw_sections, m.class_nbr)

\* the threads that are making requests with session s
UsersOf(s) ==
    {<<"worker", t>> : t \in {i \in DOMAIN sess_threads :
                                 sess_threads[i].pc = "requests" /\ sess_threads[i].session = s}}
    \cup {<<"worker", c>> : c \in {i \in DOMAIN sess_tasks :
                                      sess_tasks[i].state = "running" /\ sess_tasks[i].session = s}}
    \cup {<<"main", c>> : c \in {i \in DOMAIN sess_tasks :
                                    /\ sess_main.using = i
                                    /\ sess_tasks[i].session = s}}

\* the tasks that hold session s
HoldersOf(s) ==
    {<<"thread", t>> : t \in {i \in DOMAIN sess_threads : sess_threads[i].session = s}}
    \cup {<<"course", c>> : c \in {i \in DOMAIN sess_tasks : sess_tasks[i].session = s}}

InPool(s) == Cardinality({k \in DOMAIN sess_pool : sess_pool[k] = s})

\* C30: in every interleaving no session is used for requests by two
\* threads at once, no session is held by two tasks, and a session that a
\* task holds is not in the pool, where another thread could take it.
C30_SessionNeverShared ==
    \A s \in 1..sess_created :
        /\ Cardinality(UsersOf(s)) <= 1
        /\ Cardinality(HoldersOf(s)) + InPool(s) <= 1

\* two worker threads make requests at once, each with its own session, one
\* of them made because the pool was empty
C30_Witness ==
    /\ sess_scraper = "optimized"
    /\ \A t \in DOMAIN sess_threads : sess_threads[t].pc = "requests"
    /\ sess_created > 1
    /\ sess_threads[1].tasks > 1

\* the main thread of the enhanced scraper uses the session of a finished
\* course while a worker makes the requests of another course
C30_WitnessMainThread ==
    /\ sess_scraper = "enhanced"
    /\ sess_main.using # 0
    /\ \E c \in DOMAIN sess_tasks : sess_tasks[c].state = "running"

====
